---- MODULE Spec2Model ----
(***************************************************************************)
(* The gateway's local JWT validation: the public-key cache               *)
(* (gateway/middleware/auth.go getPublicKey), the token check             *)
(* (validateJWTLocally) and the two middlewares built on it               *)
(* (AuthMiddleware, OptionalAuthMiddleware).  Every inbound request is a  *)
(* goroutine; the cache is the only state the goroutines share.  Time is  *)
(* counted in seconds, the precision of a JWT NumericDate.                *)
(*                                                                         *)
(* The auth service that issues the tokens (auth/app/main.go and its      *)
(* handlers: login, refresh, logout behind JwtAuthMiddleware, key pair     *)
(* generated at every start), with one client that carries the pair it     *)
(* was given to the service and to the gateway.                            *)
(*                                                                         *)
(* The gateway's proxy (gateway/services/proxy.go ProxyRequest): the       *)
(* request rebuilt for the backend, client.Do with the redirects it        *)
(* follows, and the relay of the response; the retrying ProxyRequest of    *)
(* gateway/app/services/services.go.                                       *)
(*                                                                         *)
(* The users table behind the auth service (common/db): the rows login     *)
(* reads and PUT /users/profile writes.                                    *)
(***************************************************************************)
EXTENDS Naturals, Sequences, FiniteSets, TLC

(* ------------------------------ bounds -------------------------------- *)

\* request goroutines that may run concurrently
NumProcs == 2
\* requests served in one behaviour
MaxRequests == 3
\* RSA key pairs in existence (the issuer generates them in order)
NumKeys == 2
\* the highest id the sequence of the users table hands out
MaxUserId == 5
\* calls of the repository made in one behaviour by others than the routes
MaxStoreCalls == 2

(* ------------------------- program constants -------------------------- *)

\* time.Now().Add(1 * time.Hour), in seconds
KeyTTL == 3600
\* the nil *rsa.PublicKey, the zero time.Time
Nil == 0
StatusUnauthorized == 401

TokenTypeAccess == "access"
TokenTypeRefresh == "refresh"

Procs == 1..NumProcs
KeyIds == 1..NumKeys

\* the instants the clock visits: the start, and the seconds around the expiry
\* of a key cached at the start
Instants == {0, KeyTTL - 1, KeyTTL, KeyTTL + 1}

(* ------------------------------ inputs -------------------------------- *)

\* the two users a token may name: strconv.Itoa(id), email, is_admin; the
\* payload of a token carries all three
UserIds == {"1", "2"}
EmailOf(uid) == IF uid = "1" THEN "alice@example.com" ELSE "bob@example.com"
AdminOf(uid) == uid = "1"

\* algorithms a token header may declare
Algs == {"RS256", "HS256", "none"}
TokenNbf == {0, KeyTTL}
TokenExp == {KeyTTL, KeyTTL + 1}

\* A compact JWT as the parser sees it: enc says whether the three segments
\* decode, alg is the header's algorithm, sig the key pair whose private half
\* produced the signature, the rest are the claims.
Tokens ==
    {[enc |-> "jwt", alg |-> a, sig |-> k, type |-> ty,
      user_id |-> u, email |-> EmailOf(u), is_admin |-> AdminOf(u), nbf |-> n, exp |-> e] :
        a \in Algs, k \in KeyIds, ty \in {TokenTypeAccess, TokenTypeRefresh},
        u \in UserIds, n \in TokenNbf, e \in TokenExp}

Garbage ==
    [enc |-> "garbage", alg |-> "none", sig |-> 1, type |-> TokenTypeAccess,
     user_id |-> "1", email |-> "", is_admin |-> FALSE, nbf |-> 0, exp |-> 0]

\* An Authorization header value: scheme, then `spaces` blanks, then the
\* credential.  The empty header has no scheme, no blank and no credential.
NoHeader == [scheme |-> "", spaces |-> 0, cred |-> Garbage]

MakeHeader(s, n, c) == [scheme |-> s, spaces |-> n, cred |-> c]

SampleToken ==
    [enc |-> "jwt", alg |-> "RS256", sig |-> 1, type |-> TokenTypeAccess,
     user_id |-> "1", email |-> EmailOf("1"), is_admin |-> AdminOf("1"),
     nbf |-> 0, exp |-> KeyTTL + 1]

MalformedHeaders ==
    {NoHeader,
     MakeHeader("Bearer", 0, Garbage),
     MakeHeader("Basic", 1, SampleToken),
     MakeHeader("bearer", 1, SampleToken),
     MakeHeader("Bearer", 2, SampleToken),
     MakeHeader("Bearer", 1, Garbage)}

AllHeaders == MalformedHeaders \cup {MakeHeader("Bearer", 1, t) : t \in Tokens}

\* the headers of the concurrent scenario: none, and a long-lived access token
FewHeaders == {NoHeader, MakeHeader("Bearer", 1, SampleToken)}

(* --------------------------- pure functions --------------------------- *)

\* strings.SplitN(authHeader, " ", 2): the text before the first blank and,
\* when there is a blank, the text after it (which keeps any further blank).
SplitN(h) ==
    IF h.spaces = 0
    THEN <<[text |-> h.scheme, lead |-> 0, cred |-> Garbage]>>
    ELSE <<[text |-> h.scheme, lead |-> 0, cred |-> Garbage],
           [text |-> "", lead |-> h.spaces - 1, cred |-> h.cred]>>

\* authHeader == ""
EmptyHeader(h) == h.scheme = "" /\ h.spaces = 0

\* len(tokenParts) == 2 && tokenParts[0] == "Bearer"
BearerForm(h) == Len(SplitN(h)) = 2 /\ SplitN(h)[1].text = "Bearer"

\* token.Method.(*jwt.SigningMethodRSA): the RS* family only
IsSigningMethodRSA(alg) == alg \in {"RS256", "RS384", "RS512"}

\* a validator that still takes a token in the second it expires
ValidateClaimsLate(c, t) ==
    IF ~(t <= c.exp) THEN "token is expired"
    ELSE IF t < c.nbf THEN "token is not valid yet"
    ELSE ""

\* the registered-claims validator of jwt/v5 with no leeway:
\* now.Before(exp), then !now.Before(nbf)
ValidateClaims(c, t) ==
    IF ~(t < c.exp) THEN "token is expired"
    ELSE IF t < c.nbf THEN "token is not valid yet"
    ELSE ""

\* a parse that never verifies the signature
ParseUnverified(part, publicKey, t) ==
    IF part.lead > 0 \/ part.cred.enc # "jwt" THEN "token is malformed"
    ELSE IF ~IsSigningMethodRSA(part.cred.alg) THEN "unexpected signing method"
    ELSE ValidateClaims(part.cred, t)

\* a key function that hands out the key whatever the method: an HS256 token
\* whose MAC was made with the public key then verifies
ParseAnyMethod(part, publicKey, t) ==
    IF part.lead > 0 \/ part.cred.enc # "jwt" THEN "token is malformed"
    ELSE IF part.cred.sig # publicKey THEN "signature is invalid"
    ELSE ValidateClaims(part.cred, t)

\* jwt.ParseWithClaims(tokenString, &JWTClaims{}, keyFunc) at time t, where
\* keyFunc refuses every non-RSA method and otherwise hands out publicKey.
\* The result is the parse error, "" when the token is Valid.
ParseWithClaims(part, publicKey, t) ==
    IF part.lead > 0 \/ part.cred.enc # "jwt" THEN "token is malformed"
    ELSE IF ~IsSigningMethodRSA(part.cred.alg) THEN "unexpected signing method"
    ELSE IF part.cred.sig # publicKey THEN "signature is invalid"
    ELSE ValidateClaims(part.cred, t)

\* a validation that does not look at the type claim
validateJWTAnyType(part, key, keyErr, t) ==
    IF keyErr # "" THEN [err |-> "failed to get public key", claims |-> Garbage]
    ELSE IF ParseWithClaims(part, key, t) # ""
         THEN [err |-> ParseWithClaims(part, key, t), claims |-> Garbage]
    ELSE [err |-> "", claims |-> part.cred]

\* the part of validateJWTLocally after getPublicKey returned (key, keyErr):
\* [err |-> "" and the claims] or [err |-> the error]
validateJWTLocally(part, key, keyErr, t) ==
    IF keyErr # "" THEN [err |-> "failed to get public key", claims |-> Garbage]
    ELSE IF ParseWithClaims(part, key, t) # ""
         THEN [err |-> ParseWithClaims(part, key, t), claims |-> Garbage]
    ELSE IF part.cred.type # TokenTypeAccess
         THEN [err |-> "invalid token type, expected access token", claims |-> Garbage]
    ELSE [err |-> "", claims |-> part.cred]

\* what one middleware run leaves behind: the response it wrote (status 0:
\* none), whether it aborted the chain, how often it called c.Next(), the
\* context keys it set and their values
NoIdentity == [user_id |-> "", email |-> "", is_admin |-> FALSE]

Outcome(st, msg, ab, nx, keys, id) ==
    [status |-> st, error |-> msg, aborted |-> ab, next |-> nx, keys |-> keys, id |-> id]

NoOutcome == Outcome(0, "", FALSE, 0, {}, NoIdentity)

\* c.Set("user_id", claims.UserID), ("email", claims.Email), ("is_admin", claims.IsAdmin)
IdentityOf(c) == [user_id |-> c.user_id, email |-> c.email, is_admin |-> c.is_admin]

\* AuthMiddleware before the token is looked at: lines 34-53
RequiredHeaderCheck(h) ==
    IF EmptyHeader(h)
    THEN Outcome(StatusUnauthorized, "Authorization header required", TRUE, 0, {}, NoIdentity)
    ELSE IF ~BearerForm(h)
    THEN Outcome(StatusUnauthorized,
                 "Invalid authorization header format. Expected 'Bearer <token>'",
                 TRUE, 0, {}, NoIdentity)
    ELSE NoOutcome

\* an AuthMiddleware that answers 401 and forgets c.Abort()
RequiredResultNoAbort(v) ==
    IF v.err # ""
    THEN Outcome(StatusUnauthorized, "Invalid or expired token", FALSE, 0, {}, NoIdentity)
    ELSE Outcome(0, "", FALSE, 1, {"user_id", "email", "is_admin"}, IdentityOf(v.claims))

\* AuthMiddleware once validateJWTLocally returned v: lines 58-81
RequiredResult(v) ==
    IF v.err # ""
    THEN Outcome(StatusUnauthorized, "Invalid or expired token", TRUE, 0, {}, NoIdentity)
    ELSE Outcome(0, "", FALSE, 1, {"user_id", "email", "is_admin"}, IdentityOf(v.claims))

\* an OptionalAuthMiddleware that turns a bad token away
OptionalResultRejects(v) ==
    IF v.err = ""
    THEN Outcome(0, "", FALSE, 1, {"user_id", "email", "is_admin", "authenticated"},
                 IdentityOf(v.claims))
    ELSE Outcome(StatusUnauthorized, "Invalid or expired token", TRUE, 0, {}, NoIdentity)

\* OptionalAuthMiddleware once validateJWTLocally returned v: lines 214-224
OptionalResult(v) ==
    IF v.err = ""
    THEN Outcome(0, "", FALSE, 1, {"user_id", "email", "is_admin", "authenticated"},
                 IdentityOf(v.claims))
    ELSE Outcome(0, "", FALSE, 1, {}, NoIdentity)

\* OptionalAuthMiddleware when it never reaches validateJWTLocally: lines 203-212, 224
OptionalSkip == Outcome(0, "", FALSE, 1, {}, NoIdentity)

\* gin runs the rest of the chain inside c.Next(), and after the middleware
\* returns unless c.Abort() was called
HandlerRuns(o) == IF o.next > 0 THEN 1 ELSE IF o.aborted THEN 0 ELSE 1

(* ------------------------- the public-key fetch ----------------------- *)

\* What client.Get(".../api/v1/auth/public-key") can come back with while the
\* issuer holds key pair k: the issuer's answer, or one of the failures.
\* transport: no response; status: the HTTP status; json: the body decodes;
\* pem: it holds a PEM block; pkix: the block parses; rsa: the key is RSA.
Response(tr, st, js, pm, px, rs, k) ==
    [transport |-> tr, status |-> st, json |-> js, pem |-> pm, pkix |-> px,
     rsa |-> rs, key |-> k]

FetchResponses(k) ==
    {Response(TRUE, 200, TRUE, TRUE, TRUE, TRUE, k),
     Response(FALSE, 0, FALSE, FALSE, FALSE, FALSE, k),
     Response(TRUE, 500, TRUE, TRUE, TRUE, TRUE, k),
     Response(TRUE, 200, FALSE, FALSE, FALSE, FALSE, k),
     Response(TRUE, 200, TRUE, FALSE, FALSE, FALSE, k),
     Response(TRUE, 200, TRUE, TRUE, FALSE, FALSE, k),
     Response(TRUE, 200, TRUE, TRUE, TRUE, FALSE, k)}

\* getPublicKey lines 145-180: the error it returns for a response, "" if none
FetchError(r) ==
    IF ~r.transport THEN "failed to fetch public key: transport"
    ELSE IF r.status # 200 THEN "failed to fetch public key: status"
    ELSE IF ~r.json THEN "failed to parse public key response"
    ELSE IF ~r.pem THEN "failed to decode PEM block containing public key"
    ELSE IF ~r.pkix THEN "failed to parse RSA public key"
    ELSE IF ~r.rsa THEN "not an RSA public key"
    ELSE ""

\* the fast path's test, line 123:
\* cachedPublicKey != nil && time.Now().Before(publicKeyExpiry)
FastPathHit(k, e, t) == k # Nil /\ t < e

\* a double check that takes whatever the cache holds for a hit
DoubleCheckAlwaysHits(k, e, t) == TRUE

\* the slow path without its second look at the cache
NoDoubleCheck(k, e, t) == FALSE

\* the same test again under the write lock, line 134
DoubleCheckHit(k, e, t) == k # Nil /\ t < e

\* a fetch that drops the cached key when it fails
CacheClearedOnFailure(r, k, e, t) ==
    IF r.transport /\ r.status = 200 /\ r.json /\ r.pem /\ r.pkix /\ r.rsa
    THEN <<r.key, t + KeyTTL>> ELSE <<Nil, 0>>

\* getPublicKey lines 183-184 on success, and the untouched cache on failure:
\* the (key, expiry) pair the cache holds after the fetch returned r at time t
CacheAfterFetch(r, k, e, t) ==
    IF FetchError(r) = "" THEN <<r.key, t + KeyTTL>> ELSE <<k, e>>

(* --------------------------- the auth service -------------------------- *)

\* jwt.access_token_duration "30m" and jwt.refresh_token_duration "168h"
AccessTokenDuration == 1800
RefreshTokenDuration == 604800
\* jwt.issuer
JWTIssuer == "home-server-auth"

StatusOK == 200
StatusBadRequest == 400
StatusInternalServerError == 500

\* the access-token durations a deployment may configure
AccessTTLs == {AccessTokenDuration, 2 * KeyTTL}
\* ... and that of the store scenario: as long as a refresh token's
StoreTTLs == {RefreshTokenDuration}

\* the rows of the users table: ID, Email, IsAdmin, the bcrypt hash of the
\* password, written as the password it was made from, and whether
\* deleted_at is set
Hash(password) == <<"bcrypt", password>>

Users ==
    {[ID |-> 1, Email |-> EmailOf("1"), IsAdmin |-> AdminOf("1"), Password |-> Hash("wonderland"),
      DeletedAt |-> FALSE],
     [ID |-> 2, Email |-> EmailOf("2"), IsAdmin |-> AdminOf("2"), Password |-> Hash("builder-1"),
      DeletedAt |-> FALSE]}

NoUser == [ID |-> 0, Email |-> "", IsAdmin |-> FALSE, Password |-> <<>>, DeletedAt |-> FALSE]

\* what a login request may carry
LoginEmails == {"alice@example.com", "bob@example.com", "carol@example.com"}
LoginPasswords == {"wonderland", "builder-1", "abc"}

\* binding:"required,email" and binding:"required,min=6"
IsEmail(s) == s \in {"alice@example.com", "bob@example.com", "carol@example.com"}
StrLen(s) ==
    CASE s = "abc" -> 3
      [] s = "wonderland" -> 10
      [] s = "builder-1" -> 9
      [] s = "rabbit-hole" -> 11
      [] OTHER -> 0

\* strconv.Itoa(int(user.ID)) and strconv.ParseUint(claims.UserID, 10, 0),
\* whose error is dropped: 0 for what is no number
Itoa(n) ==
    CASE n = 0 -> "0" [] n = 1 -> "1" [] n = 2 -> "2" [] n = 3 -> "3" [] n = 4 -> "4"
      [] n = 5 -> "5" [] n = 6 -> "6" [] n = 7 -> "7" [] OTHER -> "?"
ParseUint(s) ==
    CASE s = "1" -> 1 [] s = "2" -> 2 [] s = "3" -> 3 [] s = "4" -> 4 [] s = "5" -> 5
      [] s = "6" -> 6 [] s = "7" -> 7 [] OTHER -> 0

\* the users table of the auth service: its rows, the last value of the
\* sequence behind its id column, the calls of the repository made so far by
\* others than the routes of the service, the users of the calls of Create
\* under way (those of CreateUserIfNotExists that found no such email and
\* have not inserted yet, with ID 0, and those that took a value of the
\* sequence and wait for a transaction to end), and the transaction of the
\* CreateBatch under way: the rows it inserted and has not committed, the
\* entities still to insert and its batch size
VARIABLES userStore, userSeq, storeCalls, creating, batch

\* the rows a query of gorm sees: those with deleted_at null
Visible(store) == {u \in store : ~u.DeletedAt}

\* userRepo.GetByEmail: the row, or nil (NoUser) when there is none
GetByEmail(email) ==
    IF \E u \in Visible(userStore) : u.Email = email
    THEN CHOOSE u \in Visible(userStore) : u.Email = email
    ELSE NoUser

\* GormRepository.GetByID
GetByID(id) ==
    IF \E u \in Visible(userStore) : u.ID = id
    THEN CHOOSE u \in Visible(userStore) : u.ID = id
    ELSE NoUser

\* bcrypt.CompareHashAndPassword
verifyPassword(password, hash) == hash = Hash(password)

\* validateUserCredentials: the user and the error
validateUserCredentials(email, password) ==
    IF GetByEmail(email) = NoUser THEN [user |-> NoUser, err |-> "user not found"]
    ELSE IF ~verifyPassword(password, GetByEmail(email).Password)
         THEN [user |-> NoUser, err |-> "invalid credentials"]
    ELSE [user |-> GetByEmail(email), err |-> ""]

\* the models.JWTClaims GenerateTokenPair builds for a user at time t
NewClaims(user, type, t, ttl) ==
    [UserID |-> Itoa(user.ID), Email |-> user.Email, IsAdmin |-> user.IsAdmin,
     Type |-> type, Issuer |-> JWTIssuer, Subject |-> Itoa(user.ID),
     IssuedAt |-> t, ExpiresAt |-> t + ttl, NotBefore |-> t]

\* a payload that leaves the is_admin field out: it decodes as false
SignedStringNoAdmin(claims, privKey) ==
    [enc |-> "jwt", alg |-> "RS256", sig |-> privKey,
     type |-> claims.Type, user_id |-> claims.UserID, email |-> claims.Email,
     is_admin |-> FALSE, iss |-> claims.Issuer, sub |-> claims.Subject,
     iat |-> claims.IssuedAt, nbf |-> claims.NotBefore, exp |-> claims.ExpiresAt]

\* jwt.NewWithClaims(jwt.SigningMethodRS256, claims).SignedString(privateKey):
\* the compact token, its payload under the JSON names of the claims
SignedString(claims, privKey) ==
    [enc |-> "jwt", alg |-> "RS256", sig |-> privKey,
     type |-> claims.Type, user_id |-> claims.UserID, email |-> claims.Email,
     is_admin |-> claims.IsAdmin, iss |-> claims.Issuer, sub |-> claims.Subject,
     iat |-> claims.IssuedAt, nbf |-> claims.NotBefore, exp |-> claims.ExpiresAt]

\* the payload decoded back into a models.JWTClaims
DecodeClaims(tok) ==
    [UserID |-> tok.user_id, Email |-> tok.email, IsAdmin |-> tok.is_admin,
     Type |-> tok.type, Issuer |-> tok.iss, Subject |-> tok.sub,
     IssuedAt |-> tok.iat, ExpiresAt |-> tok.exp, NotBefore |-> tok.nbf]

NoClaims == NewClaims(NoUser, "", 0, 0)

\* GenerateTokenPair at time t under the configured access-token duration ttl
GenerateTokenPair(user, privKey, t, ttl) ==
    [access |-> SignedString(NewClaims(user, TokenTypeAccess, t, ttl), privKey),
     refresh |-> SignedString(NewClaims(user, TokenTypeRefresh, t, RefreshTokenDuration),
                              privKey),
     expires_in |-> ttl]

NoPair == [access |-> Garbage, refresh |-> Garbage, expires_in |-> 0]

\* a token string that is the whole of a field: no blank in front of it
TokenString(tok) == [text |-> "", lead |-> 0, cred |-> tok]

\* the user of the claims as the users table has it
UserFromStore(claims) == GetByID(ParseUint(claims.UserID))

\* the user ValidateRefreshToken rebuilds from the claims of a refresh token
UserFromClaims(claims) ==
    [ID |-> ParseUint(claims.UserID), Email |-> claims.Email, IsAdmin |-> claims.IsAdmin,
     Password |-> <<>>, DeletedAt |-> FALSE]

\* a validation under whatever key signed the token
ValidateJWTAnyKey(part, publicKey, t) ==
    IF ParseWithClaims(part, part.cred.sig, t) # ""
    THEN [err |-> "failed to parse token", claims |-> NoClaims]
    ELSE IF part.cred.type # TokenTypeAccess
         THEN [err |-> "invalid token type", claims |-> NoClaims]
    ELSE [err |-> "", claims |-> DecodeClaims(part.cred)]

\* ValidateJWTToken(tokenString) at time t, publicKey being the package's key
ValidateJWTToken(part, publicKey, t) ==
    IF ParseWithClaims(part, publicKey, t) # ""
    THEN [err |-> "failed to parse token", claims |-> NoClaims]
    ELSE IF part.cred.type # TokenTypeAccess
         THEN [err |-> "invalid token type", claims |-> NoClaims]
    ELSE [err |-> "", claims |-> DecodeClaims(part.cred)]

\* a refresh validation that takes any token type
ValidateRefreshAnyType(part, publicKey, t) ==
    IF ParseWithClaims(part, publicKey, t) # ""
    THEN [err |-> "failed to parse refresh token", user |-> NoUser]
    ELSE [err |-> "", user |-> UserFromClaims(DecodeClaims(part.cred))]

\* AuthService.ValidateRefreshToken(tokenString) at time t
ValidateRefreshToken(part, publicKey, t) ==
    IF ParseWithClaims(part, publicKey, t) # ""
    THEN [err |-> "failed to parse refresh token", user |-> NoUser]
    ELSE IF part.cred.type # TokenTypeRefresh
         THEN [err |-> "invalid token type for refresh", user |-> NoUser]
    ELSE [err |-> "", user |-> UserFromClaims(DecodeClaims(part.cred))]

\* JwtAuthMiddleware of the auth service on Authorization header h
JwtAuthMiddleware(h, publicKey, t) ==
    IF EmptyHeader(h)
    THEN Outcome(StatusUnauthorized, "Authorization header is required", TRUE, 0, {},
                 NoIdentity)
    ELSE IF ~BearerForm(h)
    THEN Outcome(StatusUnauthorized,
                 "Invalid authorization header format. Expected 'Bearer <token>'",
                 TRUE, 0, {}, NoIdentity)
    ELSE IF ValidateJWTToken(SplitN(h)[2], publicKey, t).err # ""
    THEN Outcome(StatusUnauthorized, "Invalid or expired token", TRUE, 0, {}, NoIdentity)
    ELSE Outcome(0, "", FALSE, 1, {"user_id", "user_email", "user_is_admin"},
                 [user_id |-> ValidateJWTToken(SplitN(h)[2], publicKey, t).claims.UserID,
                  email |-> ValidateJWTToken(SplitN(h)[2], publicKey, t).claims.Email,
                  is_admin |-> ValidateJWTToken(SplitN(h)[2], publicKey, t).claims.IsAdmin])

\* what a handler of the auth service answers: the status, the "error" or
\* "message" field, and the token pair of a LoginResponse
Answer(st, err, msg, pair) == [status |-> st, error |-> err, message |-> msg, pair |-> pair]

NoAnswer == Answer(0, "", "", NoPair)

\* LoginHandler, with AuthService.Login inside it
LoginHandler(email, password, privKey, t, ttl) ==
    IF ~IsEmail(email) \/ StrLen(password) < 6
    THEN Answer(StatusBadRequest, "Invalid request format", "", NoPair)
    ELSE IF validateUserCredentials(email, password).err # ""
    THEN Answer(StatusUnauthorized, validateUserCredentials(email, password).err, "", NoPair)
    ELSE Answer(StatusOK, "", "",
                GenerateTokenPair(validateUserCredentials(email, password).user, privKey, t, ttl))

\* the JSON body of a refresh or logout request: whether it has a non-empty
\* refresh_token field, and the token in it
Body(has, tok) == [has |-> has, tok |-> tok]

NoBody == Body(FALSE, Garbage)

\* RefreshHandler
RefreshHandler(body, privKey, t, ttl) ==
    IF ~body.has THEN Answer(StatusBadRequest, "Invalid request format", "", NoPair)
    ELSE IF ValidateRefreshToken(TokenString(body.tok), privKey, t).err # ""
    THEN Answer(StatusUnauthorized, "Invalid or expired refresh token", "", NoPair)
    ELSE Answer(StatusOK, "", "",
                GenerateTokenPair(ValidateRefreshToken(TokenString(body.tok), privKey, t).user,
                                  privKey, t, ttl))

\* LogoutHandler behind a middleware that left the context keys ctx
LogoutHandler(body, ctx) ==
    IF ~body.has THEN Answer(StatusBadRequest, "Invalid request format", "", NoPair)
    ELSE IF "user_id" \notin ctx.keys
    THEN Answer(StatusUnauthorized, "Invalid authentication context", "", NoPair)
    ELSE Answer(StatusOK, "", "Logged out successfully", NoPair)

\* the JSON body of PUT /users/profile as it binds into a models.User:
\* whether it is JSON at all, its email, its is_admin and whether it has a
\* deleted_at with a time in it; a password in it is not bound (json:"-")
ProfileBody(ok, email, isAdmin, deletedAt) ==
    [ok |-> ok, email |-> email, is_admin |-> isAdmin, deleted_at |-> deletedAt]

\* the unique index on email, which covers the soft-deleted rows as well:
\* another row of the table has the entity's email
EmailTaken(store, entity) == \E u \in store : u.ID # entity.ID /\ u.Email = entity.Email

\* a result of a repository call: the table, the sequence and the error
StoreResult(store, seq, err) == [store |-> store, seq |-> seq, err |-> err]

\* GormRepository.Create, db.Create(entity): a row with the next value of
\* the sequence as its ID when the entity has none; the sequence keeps the
\* value it handed out when the insert fails on the unique index
Create(store, seq, entity) ==
    IF entity.ID # 0 /\ \E u \in store : u.ID = entity.ID
    THEN StoreResult(store, seq, "duplicate key value violates unique constraint")
    ELSE IF EmailTaken(store, entity)
    THEN StoreResult(store, IF entity.ID = 0 THEN seq + 1 ELSE seq,
                     "duplicate key value violates unique constraint")
    ELSE IF entity.ID = 0
    THEN StoreResult(store \cup {[entity EXCEPT !.ID = seq + 1]}, seq + 1, "")
    ELSE StoreResult(store \cup {entity}, seq, "")

\* UserRepository.EmailExists: a count over the visible rows
EmailExists(store, email) == \E u \in Visible(store) : u.Email = email

\* the rows of one CreateInBatches go in one after the other, up to the first
\* the table refuses
RECURSIVE InsertRows(_, _, _)
InsertRows(store, seq, entities) ==
    IF entities = <<>> THEN StoreResult(store, seq, "")
    ELSE IF Create(store, seq, Head(entities)).err # "" THEN Create(store, seq, Head(entities))
    ELSE InsertRows(Create(store, seq, Head(entities)).store,
                    Create(store, seq, Head(entities)).seq, Tail(entities))

\* the first n of the entities and the others
Take(entities, n) == SubSeq(entities, 1, IF n < Len(entities) THEN n ELSE Len(entities))
Drop(entities, n) == SubSeq(entities, n + 1, Len(entities))

\* the transaction of a CreateInBatches: the rows it inserted and has not
\* committed, the entities of the batches to come, the batch size
Batch(rows, rest, size) == [rows |-> rows, rest |-> rest, size |-> size]
NoBatch == Batch({}, <<>>, 0)

\* the result of a step of CreateBatch: the table, the sequence, the error
\* and the transaction left open
BatchResult(store, seq, err, open) == [store |-> store, seq |-> seq, err |-> err, batch |-> open]

\* GormRepository.CreateBatch, db.CreateInBatches(entities, batchSize) with
\* a batch size of one or more, one INSERT of it: the next batchSize
\* entities go into the table as the transaction sees it (the committed rows
\* and its own).  A refused row ends the call and rolls back every batch,
\* while the values the sequence handed out are not given back; the last
\* batch commits the rows of all; entities that fit in one batch are one
\* statement
CreateBatch(store, seq, open, entities, batchSize) ==
    LET r == InsertRows(store \cup open.rows, seq, Take(entities, batchSize))
    IN IF r.err # "" THEN BatchResult(store, r.seq, r.err, NoBatch)
       ELSE IF Drop(entities, batchSize) = <<>> THEN BatchResult(r.store, r.seq, "", NoBatch)
       ELSE BatchResult(store, r.seq, "",
                        Batch(r.store \ store, Drop(entities, batchSize), batchSize))

\* an INSERT of this entity meets an uncommitted row with its email and
\* waits for the transaction to end
Blocked(open, entity) == \E u \in open.rows : u.Email = entity.Email

\* GormRepository.Update, db.Save(entity): an entity without ID is created;
\* otherwise every column of the visible row with the entity's ID is
\* written, deleted_at included, and when no row was updated the entity is
\* inserted, overwriting on conflict the row that has its ID
Update(store, seq, entity) ==
    IF entity.ID = 0 THEN Create(store, seq, entity)
    ELSE IF EmailTaken(store, entity)
    THEN StoreResult(store, seq, "duplicate key value violates unique constraint")
    ELSE StoreResult({u \in store : u.ID # entity.ID} \cup {entity}, seq, "")

\* the models.User UpdateUserProfileHandler hands to UpdateUserProfile: the
\* bound body, deleted_at included, with the ID of the token's user_id;
\* Password is the zero value
UserUpdate(body, ctx) ==
    [ID |-> ParseUint(ctx.id.user_id), Email |-> body.email, IsAdmin |-> body.is_admin,
     Password |-> <<>>, DeletedAt |-> body.deleted_at]

\* UpdateUserProfileHandler behind a middleware that left the context ctx:
\* the answer, and the users table and its sequence after it
UpdateUserProfileHandler(body, ctx, store, seq) ==
    IF "user_id" \notin ctx.keys
    THEN [answer |-> Answer(StatusUnauthorized, "Invalid authentication context", "", NoPair),
          store |-> store, seq |-> seq]
    ELSE IF ~body.ok
    THEN [answer |-> Answer(StatusBadRequest, "Invalid request format", "", NoPair),
          store |-> store, seq |-> seq]
    ELSE IF Update(store, seq, UserUpdate(body, ctx)).err # ""
    THEN [answer |-> Answer(StatusInternalServerError, "Failed to update user profile", "",
                            NoPair),
          store |-> store, seq |-> Update(store, seq, UserUpdate(body, ctx)).seq]
    ELSE [answer |-> Answer(StatusOK, "", "", NoPair),
          store |-> Update(store, seq, UserUpdate(body, ctx)).store,
          seq |-> Update(store, seq, UserUpdate(body, ctx)).seq]

\* GormRepository.HardDelete: the row goes, soft-deleted or not
HardDelete(store, id) == {u \in store : u.ID # id}

\* UserRepository.SoftDeleteUser and GormRepository.Delete: deleted_at is
\* set on the visible row; SoftDeleteUser reports a row it did not find
SoftDeleteUser(store, id) ==
    IF \E u \in Visible(store) : u.ID = id
    THEN [store |-> {IF u.ID = id THEN [u EXCEPT !.DeletedAt = TRUE] ELSE u : u \in store},
          err |-> ""]
    ELSE [store |-> store, err |-> "user not found"]

\* UserRepository.RestoreUser: deleted_at is cleared, on any row with the ID
RestoreUser(store, id) ==
    IF \E u \in store : u.ID = id
    THEN [store |-> {IF u.ID = id THEN [u EXCEPT !.DeletedAt = FALSE] ELSE u : u \in store},
          err |-> ""]
    ELSE [store |-> store, err |-> "user not found"]

\* UserRepository.UpdatePassword: the password column of the visible row
UpdatePassword(store, id, hashedPassword) ==
    IF \E u \in Visible(store) : u.ID = id
    THEN [store |-> {IF u.ID = id /\ ~u.DeletedAt THEN [u EXCEPT !.Password = hashedPassword]
                     ELSE u : u \in store},
          err |-> ""]
    ELSE [store |-> store, err |-> "user not found"]

\* a logout that generates the keys anew
LogoutRotatesKeys(k) == IF k < NumKeys THEN k + 1 ELSE k

\* AuthService.Logout and InvalidateRefreshToken: what they leave of the
\* package's key pair (they assign nothing)
KeysAfterLogout(k) == k

\* a route behind a middleware: the middleware's answer when it aborts, the
\* handler's otherwise
Behind(mw, answer) ==
    IF HandlerRuns(mw) = 0 THEN Answer(mw.status, mw.error, "", NoPair) ELSE answer

\* the record of a request and its answer
Exchange(route, h, body, ans) ==
    [route |-> route, hdr |-> h, body |-> body,
     status |-> ans.status, error |-> ans.error, message |-> ans.message]

NoExchange == Exchange("", NoHeader, NoBody, NoAnswer)

NoLogins == [unknown |-> NoAnswer, wrong |-> NoAnswer]

\* api.base_url of the configuration
BaseURL == "/api/v1"

\* the routes main registers at the auth service, and the handler of each
AuthRoutes ==
    {<<"GET", "/health", "HealthCheckHandler">>,
     <<"POST", BaseURL \o "/auth/login", "LoginHandler">>,
     <<"GET", BaseURL \o "/auth/public-key", "GetPublicKeyHandler">>,
     <<"POST", BaseURL \o "/auth/logout", "LogoutHandler">>,
     <<"POST", BaseURL \o "/auth/refresh", "RefreshHandler">>,
     <<"GET", BaseURL \o "/auth/users/profile", "GetUserProfileHandler">>,
     <<"PUT", BaseURL \o "/auth/users/profile", "UpdateUserProfileHandler">>}

\* the handler gin finds at the auth service for a method and a path, ""
\* when it answers 404 because no route matches
AuthServiceHandler(method, path) ==
    IF \E r \in AuthRoutes : r[1] = method /\ r[2] = path
    THEN (CHOOSE r \in AuthRoutes : r[1] = method /\ r[2] = path)[3]
    ELSE ""

(* ----------------------------- the proxy ------------------------------ *)

StatusBadGateway == 502

\* api.max_retries of the configuration
MaxRetries == 3

\* the redirects one client.Do of the model follows at most
MaxHops == 2

\* the handlers of the proxied routes and the service name each passes
ProxyHandlers ==
    [stats |-> "stats", auth |-> "auth", files |-> "file-service"]

\* ServiceRegistry
ServiceRegistry ==
    [profile |-> "8080", stats |-> "8080", camera |-> "8080"]
        @@ ("auth-service" :> "8080") @@ ("file-service" :> "8080")
        @@ ("ui-service" :> "3000")

\* strings.ToUpper(strings.ReplaceAll(serviceName, "-", "_"))
UpperSnake(serviceName) ==
    CASE serviceName = "stats" -> "STATS"
      [] serviceName = "auth" -> "AUTH"
      [] serviceName = "file-service" -> "FILE_SERVICE"
      [] OTHER -> "?"

\* the environments of the gateway process: none of the variables set, host
\* and port of the stats service set, or the host of the auth service set
NoEnv == [n \in {} |-> ""]
StatsEnv == ("STATS_SERVICE_HOST" :> "10.0.0.5") @@ ("STATS_SERVICE_PORT" :> "9090")
AuthEnv == "AUTH_SERVICE_HOST" :> "auth-service"
Envs == {NoEnv, StatsEnv, AuthEnv}

\* os.Getenv
Getenv(env, k) == IF k \in DOMAIN env THEN env[k] ELSE ""

\* getServiceHost
getServiceHost(serviceName, env) ==
    IF Getenv(env, UpperSnake(serviceName) \o "_SERVICE_HOST") # ""
    THEN Getenv(env, UpperSnake(serviceName) \o "_SERVICE_HOST")
    ELSE serviceName

\* getServicePort
getServicePort(serviceName, env) ==
    IF Getenv(env, UpperSnake(serviceName) \o "_SERVICE_PORT") # ""
    THEN Getenv(env, UpperSnake(serviceName) \o "_SERVICE_PORT")
    ELSE IF serviceName \in DOMAIN ServiceRegistry THEN ServiceRegistry[serviceName]
    ELSE "8080"

\* the header names of the model and a header: the values under each name
HeaderNames == {"Content-Type", "Set-Cookie", "Location", "X-Trace"}
NoHeaders == [n \in HeaderNames |-> <<>>]
WithHeader(h, name, values) == [h EXCEPT ![name] = values]

\* http.Header.Add, Set and Del
HeaderAdd(h, name, value) == [h EXCEPT ![name] = Append(@, value)]
HeaderSet(h, name, value) == [h EXCEPT ![name] = <<value>>]
HeaderDel(h, name) == [h EXCEPT ![name] = <<>>]

\* http.Header.Get: the first value under the name, "" when there is none
HeaderGet(h, name) == IF h[name] = <<>> THEN "" ELSE h[name][1]

\* gin's c.Header(key, value): an empty value deletes the key, any other
\* replaces what the writer had under it
ContextHeader(h, name, value) ==
    IF value = "" THEN HeaderDel(h, name) ELSE HeaderSet(h, name, value)

\* the inner loop of copyHeaders over the values of one name, from value i on
RECURSIVE AddValues(_, _, _, _)
AddValues(dst, name, values, i) ==
    IF i > Len(values) THEN dst
    ELSE AddValues(HeaderAdd(dst, name, values[i]), name, values, i + 1)

\* copyHeaders(dst, src), the names taken in any order
RECURSIVE copyHeadersOver(_, _, _)
copyHeadersOver(dst, src, names) ==
    IF names = {} THEN dst
    ELSE LET n == CHOOSE n \in names : TRUE
         IN copyHeadersOver(AddValues(dst, n, src[n], 1), src, names \ {n})

copyHeaders(dst, src) == copyHeadersOver(dst, src, HeaderNames)

\* the loop of lines 81-85 over the values of one name, from value i on
RECURSIVE RelayValues(_, _, _, _)
RelayValues(w, name, values, i) ==
    IF i > Len(values) THEN w
    ELSE RelayValues(ContextHeader(w, name, values[i]), name, values, i + 1)

\* the loop of lines 81-85 over the names
RECURSIVE RelayHeadersOver(_, _, _)
RelayHeadersOver(w, src, names) ==
    IF names = {} THEN w
    ELSE LET n == CHOOSE n \in names : TRUE
         IN RelayHeadersOver(RelayValues(w, n, src[n], 1), src, names \ {n})

RelayHeaders(w, src) == RelayHeadersOver(w, src, HeaderNames)

\* a hexadecimal digit
IsHex(ch) == ch \in {"0", "1", "2", "3", "4", "5", "6", "7", "8", "9",
                     "a", "b", "c", "d", "e", "f", "A", "B", "C", "D", "E", "F"}

\* url.Parse on the path of the target URL, the path given by its
\* characters: a % that two hexadecimal digits do not follow is an error
InvalidEscape(path) ==
    \E i \in 1..Len(path) :
        /\ path[i] = "%"
        /\ ~(i + 2 <= Len(path) /\ IsHex(path[i + 1]) /\ IsHex(path[i + 2]))

\* the strings of the model that hold a character no token may hold (a
\* blank, a slash)
NotTokens == {"GET /", "G T"}

\* validMethod of net/http: any non-empty token, whatever its name or case
ValidMethod(method) == method # "" /\ method \notin NotTokens

\* http.NewRequest reads the empty method as GET
MethodOrGet(method) == IF method = "" THEN "GET" ELSE method

\* a target that keeps the prefix of the auth routes in front of the parameter
TargetURLWithPrefix(serviceName, env, path) ==
    [host |-> getServiceHost(serviceName, env),
     port |-> getServicePort(serviceName, env),
     path |-> <<"/", "a", "u", "t", "h">> \o (IF path = <<>> THEN <<"/">> ELSE path)]

\* the target of lines 29-37
TargetURL(serviceName, env, path) ==
    [host |-> getServiceHost(serviceName, env),
     port |-> getServicePort(serviceName, env),
     path |-> IF path = <<>> THEN <<"/">> ELSE path]

\* the path of a URL as one string
RECURSIVE PathString(_)
PathString(path) == IF path = <<>> THEN "" ELSE Head(path) \o PathString(Tail(path))

\* fmt.Sprintf("http://%s:%s%s", targetHost, targetPort, path)
URLString(url) == "http://" \o url.host \o ":" \o url.port \o PathString(url.path)

\* the request on its way to a backend
OutRequest(method, url, body, header) ==
    [method |-> method, url |-> url, body |-> body, header |-> header]

NoURL == [host |-> "", port |-> "", path |-> <<>>]
NoRequest == OutRequest("", NoURL, "", NoHeaders)

\* http.NewRequest(method, targetURL, body) and copyHeaders, lines 46-59:
\* the request, or NoRequest when NewRequest returns an error
NewRequest(serviceName, env, method, path, body, header) ==
    IF ~ValidMethod(MethodOrGet(method))
          \/ InvalidEscape(TargetURL(serviceName, env, path).path)
    THEN NoRequest
    ELSE OutRequest(MethodOrGet(method), TargetURL(serviceName, env, path), body,
                    copyHeaders(NoHeaders, header))

\* what a backend sends back, or the failure of the transport
Reply(transport, status, header, body) ==
    [transport |-> transport, status |-> status, header |-> header, body |-> body]

NoReply == Reply("", 0, NoHeaders, "")

\* what the gateway writes to its client
Written(status, header, body) == [status |-> status, header |-> header, body |-> body]

NoWritten == Written(0, NoHeaders, "")

\* c.JSON(status, gin.H{"error": msg})
ErrorJSON(status, msg) ==
    Written(status,
            WithHeader(NoHeaders, "Content-Type", <<"application/json; charset=utf-8">>),
            "{\"error\":\"" \o msg \o "\"}")

\* redirectBehavior of net/http for a client without CheckRedirect: whether
\* client.Do sends a further request after this reply; ireq is the first
\* request of the call (reqs[0]), whose body, a reader without GetBody,
\* cannot be sent again
ShouldRedirect(ireq, reply) ==
    /\ reply.transport = ""
    /\ HeaderGet(reply.header, "Location") # ""
    /\ \/ reply.status \in {301, 302, 303}
       \/ reply.status \in {307, 308} /\ ireq.body = ""

\* the characters of a Location of the model
PathOf(location) ==
    CASE location = "/login" -> <<"/", "l", "o", "g", "i", "n">>
      [] OTHER -> <<"/">>

\* ... and the request it sends then: to the Location on the same host, the
\* method GET unless it was GET or HEAD or the status keeps it, no body
RedirectRequest(req, reply) ==
    OutRequest(IF reply.status \in {307, 308} \/ req.method \in {"GET", "HEAD"}
               THEN req.method ELSE "GET",
               [req.url EXCEPT !.path = PathOf(HeaderGet(reply.header, "Location"))],
               "", req.header)

\* lines 67-77: client.Do returned an error
Unavailable(serviceName) ==
    ErrorJSON(StatusBadGateway, "Service " \o serviceName \o " is unavailable")

\* lines 80-94: the headers, the status and the body of the response; when
\* io.Copy returns an error, which is logged, the body stops short (here:
\* at its start)
RelayResponse(reply, copyErr) ==
    Written(reply.status, RelayHeaders(NoHeaders, reply.header),
            IF copyErr = "" THEN reply.body ELSE "")

\* the errors of io.Copy: none, or the client has gone
CopyErrors == {"", "write: broken pipe"}

\* the inputs of the model: methods, wildcard parameters, bodies, query
\* strings, request headers
ProxyMethods == {"GET", "POST", "TRACE"}
ProxyPaths ==
    {<<>>, <<"/", "c", "p", "u">>, <<"/", "%", "z", "z">>, <<"/", "l", "o", "g", "i", "n">>}
ProxyBodies(method) == IF method \in {"GET", "TRACE"} THEN {""} ELSE {"{\"n\":1}"}
ProxyQueries == {"", "page=2"}
ProxyHeaders ==
    {NoHeaders, WithHeader(NoHeaders, "X-Trace", <<"t1", "t2">>)}

\* the replies of a backend: a response, or a transport error
JSONType == WithHeader(NoHeaders, "Content-Type", <<"application/json">>)
Replies ==
    {Reply("", StatusOK, JSONType, "{\"cpu\":7}"),
     Reply("", StatusOK, WithHeader(JSONType, "Set-Cookie", <<"a=1", "b=2">>), "{}"),
     Reply("", 404, WithHeader(NoHeaders, "X-Trace", <<"">>), "not found"),
     Reply("", 302, WithHeader(NoHeaders, "Location", <<"/login">>), ""),
     Reply("", 307, WithHeader(NoHeaders, "Location", <<"/login">>), ""),
     Reply("connection refused", 0, NoHeaders, "")}

\* a call of ProxyRequest: its inputs, the first request a backend got and
\* its answer, the request client.Do is at with the redirects it followed,
\* the calls of client.Do, the last reply, and what was written
ProxyCall(stage, route, env, method, path, query, body, header, first, firstReply, req, hops, attempts, reply, written) ==
    [stage |-> stage, route |-> route, env |-> env, method |-> method, path |-> path,
     query |-> query, body |-> body, header |-> header, first |-> first, firstReply |-> firstReply,
     req |-> req, hops |-> hops, attempts |-> attempts, reply |-> reply,
     written |-> written, copyErr |-> ""]

\* no ProxyRequest call yet
NoProxy ==
    ProxyCall("idle", "", NoEnv, "", <<>>, "", "", NoHeaders, NoRequest, NoReply, NoRequest,
              0, 0, NoReply, NoWritten)

(* ------------------- the retrying proxy of gateway/app ---------------- *)

\* the largest api.max_retries of the model
MaxRetryLimit == 2

\* validServiceNames and IsValidServiceName
ValidServiceNames == {"profile", "stats", "camera"}
IsValidServiceName(serviceName) == serviceName \in ValidServiceNames

\* the inputs: service names, paths, and how the Consul catalog answers
RetryServices == {"stats", "camera", "files"}
RetryPaths == {"/", "/cpu"}
CatalogAnswers == {"ok", "error querying services"}

\* GetServiceURL: the error, "" when it returns a base URL
GetServiceURL(serviceName, catalog) ==
    IF ~IsValidServiceName(serviceName) THEN "service name is invalid"
    ELSE IF catalog # "ok" THEN catalog
    ELSE ""

\* a loop that stops one attempt early
LoopContinuesEarlyExit(attempt, maxRetries) == attempt < maxRetries

\* the loop condition of line 106
LoopContinues(attempt, maxRetries) == attempt <= maxRetries

\* the condition of line 115: a sleep follows the failed attempt
SleepsAfter(attempt, maxRetries) == attempt < maxRetries

\* a call of the retrying ProxyRequest: its inputs, the loop variable, the
\* client.Get calls made, in flight and failed, the sleeps begun, and what it
\* returned: "ok" for a response, an error text, "" while it runs
RetryCall(stage, service, path, maxRetries, attempt, attempts, inflight, failed, sleeps, result) ==
    [stage |-> stage, service |-> service, path |-> path, maxRetries |-> maxRetries,
     attempt |-> attempt, attempts |-> attempts, inflight |-> inflight,
     failed |-> failed, sleeps |-> sleeps, result |-> result]

\* no call of the retrying ProxyRequest yet
NoRetry == RetryCall("idle", "", "", 0, 0, 0, 0, 0, 0, "")

\* where the loop stands once attempt has the given value: at the next
\* client.Get, or past the loop at the return of line 121
LoopTop(r, attempt) ==
    IF LoopContinues(attempt, r.maxRetries)
    THEN [r EXCEPT !.stage = "get", !.attempt = attempt]
    ELSE [r EXCEPT !.stage = "done", !.attempt = attempt,
                   !.result = "request failed after retries"]

(* ------------------------------- state -------------------------------- *)

VARIABLES
    now,              \* the clock, in seconds
    issuerKey,        \* the key pair the issuer holds
    cachedPublicKey,  \* auth.go:25
    publicKeyExpiry,  \* auth.go:27
    rwReaders,        \* publicKeyCacheMutex: the goroutines holding RLock
    rwWriter,         \* publicKeyCacheMutex: the goroutine inside Lock..Unlock, or Nil
    pc,               \* where each request goroutine is
    mode,             \* "required": AuthMiddleware, "optional": OptionalAuthMiddleware
    hdr,              \* the request's Authorization header
    key,              \* what getPublicKey returned to the goroutine: the key
    keyErr,           \* ... and the error
    cold,             \* the goroutine's fast path found cachedPublicKey nil
    peers,            \* the goroutines whose call on the nil cache overlapped this one
    fetched,          \* "": the call issued no GET; "ok" / "fail": how its GET ended
    out,              \* the middleware's outcome
    firstExpiry,      \* the expiry the first successful fetch stored, Nil before it
    nreq,             \* requests received so far
    scenario,         \* "concurrent": few headers; "auth": one goroutine, every header;
                      \* "issuer": the auth service and its client; "login": its logins;
                      \* "store": the service and its users table; "proxy": ProxyRequest;
                      \* "retry": the retrying ProxyRequest
    accessTokenDuration,  \* config.AppConfig.JWT.AccessTokenDuration, in seconds
    held,             \* the token pair the client received last
    resp,             \* the auth service's last request and its response
    loginSeen,        \* the answers logins with bad credentials got, by cause
    proxy,            \* the ProxyRequest call in progress or just over
    retry             \* the call of the retrying ProxyRequest in progress or just over

vars ==
    <<now, issuerKey, cachedPublicKey, publicKeyExpiry, rwReaders, rwWriter, pc, mode,
      hdr, key, keyErr, cold, peers, fetched, out, firstExpiry, nreq, scenario,
      accessTokenDuration, held, resp, loginSeen, proxy, retry, userStore, userSeq,
      storeCalls, creating, batch>>

cacheVars == <<cachedPublicKey, publicKeyExpiry>>
lockVars == <<rwReaders, rwWriter>>
reqVars == <<mode, hdr, out, nreq>>
callVars == <<key, keyErr, cold, peers, fetched>>
envVars == <<now, issuerKey, scenario>>
histVars == <<firstExpiry>>
issuerVars == <<accessTokenDuration, held, resp, loginSeen>>
proxyVars == <<proxy>>
retryVars == <<retry>>
storeVars == <<userStore, userSeq, storeCalls, creating, batch>>
restVars == <<retryVars, storeVars>>
svcVars == <<issuerVars, proxyVars, restVars>>

InitWith(sc) ==
    /\ now = 0
    /\ issuerKey = 1
    /\ cachedPublicKey = Nil
    /\ publicKeyExpiry = 0
    /\ rwReaders = {}
    /\ rwWriter = Nil
    /\ pc = [p \in Procs |-> "idle"]
    /\ mode = [p \in Procs |-> "required"]
    /\ hdr = [p \in Procs |-> NoHeader]
    /\ key = [p \in Procs |-> Nil]
    /\ keyErr = [p \in Procs |-> ""]
    /\ cold = [p \in Procs |-> FALSE]
    /\ peers = [p \in Procs |-> {}]
    /\ fetched = [p \in Procs |-> ""]
    /\ out = [p \in Procs |-> NoOutcome]
    /\ firstExpiry = Nil
    /\ nreq = 0
    /\ scenario = sc
    /\ accessTokenDuration \in (IF sc = "issuer" THEN AccessTTLs
                                ELSE IF sc = "store" THEN StoreTTLs
                                ELSE {AccessTokenDuration})
    /\ held = NoPair
    /\ resp = NoExchange
    /\ loginSeen = NoLogins
    /\ proxy = NoProxy
    /\ retry = NoRetry
    /\ userStore = Users
    /\ userSeq = 2
    /\ storeCalls = 0
    /\ creating = <<>>
    /\ batch = NoBatch

\* concurrent requests, few headers
Init == InitWith("concurrent")

\* one request at a time, every header
InitAuth == InitWith("auth")

\* a token with its header's algorithm rewritten, the signature bytes being
\* those that verify under the same key
Tamper(tok, alg) == [tok EXCEPT !.alg = alg]

\* the tokens the client can put in an Authorization header: those of the
\* pair it holds and its access token re-labelled HS256; a string that is no
\* token when it holds none
Presentable(pair) ==
    IF pair = NoPair THEN {Garbage}
    ELSE {pair.access, pair.refresh, Tamper(pair.access, "HS256")}

\* ... and in the refresh_token field of a body: its refresh token
\* re-labelled none instead
PresentableInBody(pair) ==
    IF pair = NoPair THEN {Garbage}
    ELSE {pair.access, pair.refresh, Tamper(pair.refresh, "none")}

IssuerHeaders == {NoHeader} \cup {MakeHeader("Bearer", 1, t) : t \in Presentable(held)}
IssuerBodies == {NoBody} \cup {Body(TRUE, t) : t \in PresentableInBody(held)}

\* the client of the store scenario sends what it holds as it received it
StoreHeaders == IF held = NoPair THEN {NoHeader} ELSE {MakeHeader("Bearer", 1, held.access)}
StoreBodies == IF held = NoPair THEN {NoBody} ELSE {Body(TRUE, held.refresh)}
ClientHeaders == IF scenario = "store" THEN StoreHeaders ELSE IssuerHeaders
ClientBodies == IF scenario = "store" THEN StoreBodies ELSE IssuerBodies

\* the goroutines and the headers of the scenario
Active == IF scenario \in {"auth", "issuer"} THEN {1} ELSE Procs
Headers ==
    IF scenario = "auth" THEN AllHeaders
    ELSE IF scenario = "issuer" THEN IssuerHeaders
    ELSE FewHeaders
Modes == IF scenario = "auth" THEN {"required", "optional"} ELSE {"required"}

(* ------------------------------ actions ------------------------------- *)

\* A request arrives and its middleware runs up to the call of
\* validateJWTLocally: AuthMiddleware lines 34-55, OptionalAuthMiddleware
\* lines 203-213.
HeaderStage(m, h) ==
    IF m = "required" THEN RequiredHeaderCheck(h)
    ELSE IF EmptyHeader(h) \/ ~BearerForm(h) THEN OptionalSkip
    ELSE NoOutcome

Request(p) ==
    /\ p \in Active
    /\ pc[p] = "idle"
    /\ nreq < MaxRequests
    /\ \E m \in Modes, h \in Headers :
        /\ mode' = [mode EXCEPT ![p] = m]
        /\ hdr' = [hdr EXCEPT ![p] = h]
        /\ out' = [out EXCEPT ![p] = HeaderStage(m, h)]
        /\ pc' = [pc EXCEPT ![p] = IF HeaderStage(m, h) = NoOutcome THEN "rlock" ELSE "done"]
    /\ nreq' = nreq + 1
    /\ UNCHANGED <<cacheVars, lockVars, callVars, envVars, histVars, svcVars>>

\* a read lock that lets one reader in at a time
RLockExclusive(p) ==
    /\ pc[p] = "rlock"
    /\ rwWriter = Nil
    /\ rwReaders = {}
    /\ rwReaders' = rwReaders \cup {p}
    /\ pc' = [pc EXCEPT ![p] = "rcheck"]
    /\ UNCHANGED <<rwWriter, cacheVars, reqVars, callVars, envVars, histVars, svcVars>>

\* publicKeyCacheMutex.RLock(): waits while a writer holds or awaits the lock
RLock(p) ==
    /\ pc[p] = "rlock"
    /\ rwWriter = Nil
    /\ rwReaders' = rwReaders \cup {p}
    /\ pc' = [pc EXCEPT ![p] = "rcheck"]
    /\ UNCHANGED <<rwWriter, cacheVars, reqVars, callVars, envVars, histVars, svcVars>>

\* the goroutines that found the cache nil and are on the slow path
SlowCold == {q \in Procs : cold[q] /\ pc[q] \in {"lock", "lockwait", "fetch"}}

\* the fast path, lines 123-127: the check under the read lock, and RUnlock;
\* on a hit the key is still to be read
FastPath(p) ==
    /\ pc[p] = "rcheck"
    /\ rwReaders' = rwReaders \ {p}
    /\ IF FastPathHit(cachedPublicKey, publicKeyExpiry, now)
       THEN /\ pc' = [pc EXCEPT ![p] = "fastread"]
            /\ UNCHANGED <<key, cold, peers>>
       ELSE /\ cold' = [cold EXCEPT ![p] = cachedPublicKey = Nil]
            /\ peers' = [q \in Procs |->
                            IF cachedPublicKey # Nil THEN peers[q]
                            ELSE IF q = p THEN SlowCold
                            ELSE IF q \in SlowCold THEN peers[q] \cup {p}
                            ELSE peers[q]]
            /\ pc' = [pc EXCEPT ![p] = "lock"]
            /\ UNCHANGED key
    /\ UNCHANGED <<rwWriter, cacheVars, reqVars, keyErr, fetched, envVars, histVars, svcVars>>

\* line 125, return cachedPublicKey: the variable is read after RUnlock, with
\* no lock held, so the goroutine returns the key the cache holds by then,
\* that of a later fetch when a writer got in between
FastRead(p) ==
    /\ pc[p] = "fastread"
    /\ key' = [key EXCEPT ![p] = cachedPublicKey]
    /\ pc' = [pc EXCEPT ![p] = "validate"]
    /\ UNCHANGED <<lockVars, cacheVars, reqVars, keyErr, cold, peers, fetched, envVars,
                   histVars, svcVars>>

\* the slow path taking no exclusive hold of the mutex
LockNotExclusive(p) ==
    /\ pc[p] = "lock"
    /\ pc' = [pc EXCEPT ![p] = "lockwait"]
    /\ UNCHANGED <<lockVars, cacheVars, reqVars, callVars, envVars, histVars, svcVars>>

\* publicKeyCacheMutex.Lock(), first half: one writer at a time announces
\* itself, and from then on no new reader gets in
Lock(p) ==
    /\ pc[p] = "lock"
    /\ rwWriter = Nil
    /\ rwWriter' = p
    /\ pc' = [pc EXCEPT ![p] = "lockwait"]
    /\ UNCHANGED <<rwReaders, cacheVars, reqVars, callVars, envVars, histVars, svcVars>>

\* Lock() returns once the readers have left; the double check, lines
\* 134-136, and on a miss the GET of line 145 goes out
DoubleCheck(p) ==
    /\ pc[p] = "lockwait"
    /\ rwReaders = {}
    /\ IF DoubleCheckHit(cachedPublicKey, publicKeyExpiry, now)
       THEN /\ key' = [key EXCEPT ![p] = cachedPublicKey]
            /\ rwWriter' = Nil
            /\ pc' = [pc EXCEPT ![p] = "validate"]
       ELSE /\ pc' = [pc EXCEPT ![p] = "fetch"]
            /\ UNCHANGED <<key, rwWriter>>
    /\ UNCHANGED <<rwReaders, cacheVars, reqVars, keyErr, cold, peers, fetched, envVars,
                   histVars, svcVars>>

\* the GET returns: lines 146-190 and the deferred Unlock
FetchReturn(p) ==
    /\ pc[p] = "fetch"
    /\ \E r \in FetchResponses(issuerKey) :
        /\ cachedPublicKey' = CacheAfterFetch(r, cachedPublicKey, publicKeyExpiry, now)[1]
        /\ publicKeyExpiry' = CacheAfterFetch(r, cachedPublicKey, publicKeyExpiry, now)[2]
        /\ keyErr' = [keyErr EXCEPT ![p] = FetchError(r)]
        /\ key' = [key EXCEPT ![p] = IF FetchError(r) = "" THEN cachedPublicKey' ELSE Nil]
        /\ fetched' = [fetched EXCEPT ![p] = IF FetchError(r) = "" THEN "ok" ELSE "fail"]
        /\ firstExpiry' = IF firstExpiry = Nil /\ FetchError(r) = ""
                          THEN publicKeyExpiry' ELSE firstExpiry
    /\ rwWriter' = Nil
    /\ pc' = [pc EXCEPT ![p] = "validate"]
    /\ UNCHANGED <<rwReaders, reqVars, cold, peers, envVars, svcVars>>

\* validateJWTLocally goes on with what getPublicKey returned, and the
\* middleware ends: AuthMiddleware lines 58-81, OptionalAuthMiddleware 214-224
MiddlewareResult(m, v) == IF m = "required" THEN RequiredResult(v) ELSE OptionalResult(v)

\* a validation that drops the cached key when the token fails, so that the
\* next call fetches
ValidateDropsCache(p) ==
    /\ pc[p] = "validate"
    /\ out' = [out EXCEPT ![p] =
                  MiddlewareResult(mode[p],
                      validateJWTLocally(SplitN(hdr[p])[2], key[p], keyErr[p], now))]
    /\ cachedPublicKey' =
          IF validateJWTLocally(SplitN(hdr[p])[2], key[p], keyErr[p], now).err # ""
          THEN Nil ELSE cachedPublicKey
    /\ keyErr' = [keyErr EXCEPT ![p] = ""]
    /\ cold' = [cold EXCEPT ![p] = FALSE]
    /\ peers' = [peers EXCEPT ![p] = {}]
    /\ fetched' = [fetched EXCEPT ![p] = ""]
    /\ pc' = [pc EXCEPT ![p] = "done"]
    /\ UNCHANGED <<publicKeyExpiry, lockVars, mode, hdr, nreq, key, envVars, histVars,
                   svcVars>>

Validate(p) ==
    /\ pc[p] = "validate"
    /\ out' = [out EXCEPT ![p] =
                  MiddlewareResult(mode[p],
                      validateJWTLocally(SplitN(hdr[p])[2], key[p], keyErr[p], now))]
    /\ keyErr' = [keyErr EXCEPT ![p] = ""]
    /\ cold' = [cold EXCEPT ![p] = FALSE]
    /\ peers' = [peers EXCEPT ![p] = {}]
    /\ fetched' = [fetched EXCEPT ![p] = ""]
    /\ pc' = [pc EXCEPT ![p] = "done"]
    /\ UNCHANGED <<cacheVars, lockVars, mode, hdr, nreq, key, envVars, histVars, svcVars>>

\* the request is over and its goroutine ends
Finish(p) ==
    /\ pc[p] = "done"
    /\ pc' = [pc EXCEPT ![p] = "idle"]
    /\ mode' = [mode EXCEPT ![p] = "required"]
    /\ hdr' = [hdr EXCEPT ![p] = NoHeader]
    /\ out' = [out EXCEPT ![p] = NoOutcome]
    /\ key' = [key EXCEPT ![p] = Nil]
    /\ UNCHANGED <<cacheVars, lockVars, nreq, keyErr, cold, peers, fetched, envVars,
                   histVars, svcVars>>

\* the instants of the concurrent goroutines, around the expiry of the cache
CacheInstants == {0, KeyTTL - 1, KeyTTL}

\* time passes
Tick ==
    /\ \E t \in (IF scenario = "concurrent" THEN CacheInstants ELSE Instants) :
        t > now /\ now' = t
    /\ UNCHANGED <<issuerKey, scenario, cacheVars, lockVars, pc, reqVars, callVars, histVars,
                   svcVars>>

\* the issuer restarts: InitializeJWTKeys generates the next key pair
IssuerRestart ==
    /\ issuerKey < NumKeys
    /\ issuerKey' = issuerKey + 1
    /\ UNCHANGED <<now, scenario, cacheVars, lockVars, pc, reqVars, callVars, histVars,
                   svcVars>>

Next ==
    \/ \E p \in Procs : Request(p)
    \/ \E p \in Procs : RLock(p)
    \/ \E p \in Procs : FastPath(p)
    \/ \E p \in Procs : FastRead(p)
    \/ \E p \in Procs : Lock(p)
    \/ \E p \in Procs : DoubleCheck(p)
    \/ \E p \in Procs : FetchReturn(p)
    \/ \E p \in Procs : Validate(p)
    \/ \E p \in Procs : Finish(p)
    \/ Tick
    \/ IssuerRestart

Spec == Init /\ [][Next]_vars

SpecAuth == InitAuth /\ [][Next]_vars

(* ----------------------- the auth service at work --------------------- *)

\* the instants of the issuer scenario: the start, the seconds around the
\* expiry of a default access token issued at the start, the expiry of a key
\* cached at the start, the expiry of a refresh token issued at the start
IssuerInstants ==
    {0, AccessTokenDuration - 1, AccessTokenDuration, RefreshTokenDuration}

\* why a login was turned away, as the service knows it
LoginCause(email, password) ==
    IF ~IsEmail(email) \/ StrLen(password) < 6 THEN "format"
    ELSE IF GetByEmail(email) = NoUser THEN "unknown"
    ELSE IF ~verifyPassword(password, GetByEmail(email).Password) THEN "wrong"
    ELSE ""

\* POST /api/v1/auth/login: a public route
Login ==
    /\ scenario \in {"issuer", "login", "store"}
    /\ pc[1] = "idle"
    /\ nreq < MaxRequests
    /\ \E email \in LoginEmails, password \in LoginPasswords :
        LET ans == LoginHandler(email, password, issuerKey, now, accessTokenDuration)
            cause == LoginCause(email, password)
        IN /\ resp' = Exchange("login", NoHeader, NoBody, ans)
           /\ held' = IF ans.status = StatusOK THEN ans.pair ELSE held
           /\ loginSeen' = IF scenario = "login" /\ cause \in {"unknown", "wrong"}
                           THEN [loginSeen EXCEPT ![cause] = Answer(ans.status, ans.error,
                                                                    ans.message, NoPair)]
                           ELSE loginSeen
    /\ nreq' = nreq + 1
    /\ UNCHANGED <<now, issuerKey, scenario, accessTokenDuration, proxyVars, restVars, cacheVars,
                   lockVars, pc, mode, hdr, out, callVars, histVars>>

\* POST /api/v1/auth/refresh as main registers it: after auth.Use
RefreshRoute(h, body, k, t, ttl) ==
    Behind(JwtAuthMiddleware(h, k, t), RefreshHandler(body, k, t, ttl))

Refresh ==
    /\ scenario \in {"issuer", "login", "store"}
    /\ pc[1] = "idle"
    /\ nreq < MaxRequests
    /\ \E h \in ClientHeaders, body \in ClientBodies :
        LET ans == RefreshRoute(h, body, issuerKey, now, accessTokenDuration)
        IN /\ resp' = Exchange("refresh", h, body, ans)
           /\ held' = IF ans.status = StatusOK THEN ans.pair ELSE held
    /\ nreq' = nreq + 1
    /\ UNCHANGED <<now, issuerKey, scenario, accessTokenDuration, loginSeen, proxyVars, restVars,
                   cacheVars, lockVars, pc, mode, hdr, out, callVars, histVars>>

\* POST /api/v1/auth/logout, registered after auth.Use
LogoutRoute(h, body, k, t) ==
    Behind(JwtAuthMiddleware(h, k, t), LogoutHandler(body, JwtAuthMiddleware(h, k, t)))

Logout ==
    /\ scenario \in {"issuer", "login"}
    /\ pc[1] = "idle"
    /\ nreq < MaxRequests
    /\ \E h \in IssuerHeaders, body \in IssuerBodies :
        LET ans == LogoutRoute(h, body, issuerKey, now)
        IN /\ resp' = Exchange("logout", h, body, ans)
           /\ issuerKey' = IF ans.status = StatusOK THEN KeysAfterLogout(issuerKey)
                           ELSE issuerKey
    /\ nreq' = nreq + 1
    /\ UNCHANGED <<now, scenario, accessTokenDuration, held, loginSeen, proxyVars, restVars,
                   cacheVars, lockVars, pc, mode, hdr, out, callVars, histVars>>

\* time passes; the clock is read when no answer is waiting to be read
IssuerTick ==
    /\ scenario \in {"issuer", "login"}
    /\ resp = NoExchange
    /\ \A p \in Procs : pc[p] # "done"
    /\ \E t \in IssuerInstants : t > now /\ now' = t
    /\ UNCHANGED <<issuerKey, scenario, cacheVars, lockVars, pc, reqVars, callVars, histVars,
                   svcVars>>

\* the client has read the answer
Answered ==
    /\ scenario \in {"issuer", "login", "store"}
    /\ resp # NoExchange
    /\ resp' = NoExchange
    /\ UNCHANGED <<now, issuerKey, scenario, accessTokenDuration, held, loginSeen, proxyVars, restVars,
                   cacheVars, lockVars, pc, reqVars, callVars, histVars>>

\* the client turns to the gateway once the auth service has answered it
GatewayRequest(p) == resp = NoExchange /\ Request(p)

\* the auth service restarts between two exchanges
Restart == resp = NoExchange /\ IssuerRestart

NextIssuer ==
    \/ Login
    \/ Refresh
    \/ Logout
    \/ Answered
    \/ IssuerTick
    \/ Restart
    \/ \E p \in Procs : GatewayRequest(p)
    \/ \E p \in Procs : RLock(p)
    \/ \E p \in Procs : FastPath(p)
    \/ \E p \in Procs : FastRead(p)
    \/ \E p \in Procs : Lock(p)
    \/ \E p \in Procs : DoubleCheck(p)
    \/ \E p \in Procs : FetchReturn(p)
    \/ \E p \in Procs : Validate(p)
    \/ \E p \in Procs : Finish(p)

\* the auth service, the gateway and one client of both
InitIssuer == InitWith("issuer")

SpecIssuer == InitIssuer /\ [][NextIssuer]_vars

\* the logins of the auth service alone, their answers remembered by cause
NextLogin ==
    \/ Login
    \/ Answered
    \/ IssuerTick
    \/ Restart

InitLogin == InitWith("login")

SpecLogin == InitLogin /\ [][NextLogin]_vars

(* ------------------------ the users table at work --------------------- *)

\* the instants of the store scenario: the start and the seconds around the
\* expiry of the pair of a login at the start
StoreInstants == {0, RefreshTokenDuration - 1, RefreshTokenDuration}

\* what a PUT /users/profile may carry
ProfileBodies ==
    {ProfileBody(FALSE, "", FALSE, FALSE)}
        \cup {ProfileBody(TRUE, EmailOf("2"), a, FALSE) : a \in BOOLEAN}
        \cup {ProfileBody(TRUE, EmailOf("2"), FALSE, TRUE)}
        \cup {ProfileBody(TRUE, EmailOf("1"), FALSE, FALSE)}

\* PUT /api/v1/auth/users/profile, registered after auth.Use
UpdateProfileRoute(h, body, k, t, store, seq) ==
    IF HandlerRuns(JwtAuthMiddleware(h, k, t)) = 0
    THEN [answer |-> Behind(JwtAuthMiddleware(h, k, t), NoAnswer), store |-> store,
          seq |-> seq]
    ELSE UpdateUserProfileHandler(body, JwtAuthMiddleware(h, k, t), store, seq)

UpdateProfile ==
    /\ scenario = "store"
    /\ pc[1] = "idle"
    /\ nreq < MaxRequests
    /\ \E h \in StoreHeaders, body \in ProfileBodies :
        LET r == UpdateProfileRoute(h, body, issuerKey, now, userStore, userSeq)
        IN /\ resp' = [Exchange("profile", h, NoBody, r.answer) EXCEPT !.body = body]
           /\ userStore' = r.store
           /\ userSeq' = r.seq
           /\ UNCHANGED <<storeCalls, creating, batch>>
    /\ nreq' = nreq + 1
    /\ UNCHANGED <<now, issuerKey, scenario, accessTokenDuration, held, loginSeen, proxyVars,
                   retryVars, cacheVars, lockVars, pc, mode, hdr, out, callVars, histVars>>

\* a step of a call of the repository between two exchanges of the service,
\* and what it leaves alone
StoreStep ==
    /\ scenario = "store"
    /\ resp = NoExchange
    /\ UNCHANGED <<envVars, cacheVars, lockVars, pc, reqVars, callVars, histVars, issuerVars,
                proxyVars, retryVars>>

\* the first step of a call of the repository
StoreCall ==
    /\ storeCalls < MaxStoreCalls
    /\ storeCalls' = storeCalls + 1
    /\ StoreStep

\* the calls of Create under way that have no value of the sequence yet
Unnumbered == {i \in 1..Len(creating) : creating[i].ID = 0}

\* the sequence can hand out n values more, beside those the calls under way
\* will take
SeqRoom(n) == userSeq + Cardinality(Unnumbered) + Len(batch.rest) + n <= MaxUserId

\* creating without its i-th call
Without(i) == SubSeq(creating, 1, i - 1) \o SubSeq(creating, i + 1, Len(creating))

\* the users a caller of the repository creates
NewUsers ==
    {[ID |-> 0, Email |-> e, IsAdmin |-> FALSE, Password |-> Hash("wonderland"),
      DeletedAt |-> FALSE] : e \in {"carol@example.com"}}

\* AuthService.CreateUser: the INSERT takes its value of the sequence and,
\* when it meets an uncommitted row with its email, waits
CreateUser ==
    /\ SeqRoom(1)
    /\ \E entity \in NewUsers :
        IF Blocked(batch, entity)
        THEN /\ creating' = Append(creating, [entity EXCEPT !.ID = userSeq + 1])
             /\ userSeq' = userSeq + 1
             /\ UNCHANGED userStore
        ELSE /\ userStore' = Create(userStore, userSeq, entity).store
             /\ userSeq' = Create(userStore, userSeq, entity).seq
             /\ UNCHANGED creating
    /\ UNCHANGED batch
    /\ StoreCall

\* the slices a caller of CreateBatch hands over, and the batch sizes
BatchUsers ==
    NewUsers \cup {[ID |-> 0, Email |-> "dave@example.com", IsAdmin |-> FALSE,
                    Password |-> Hash("abc"), DeletedAt |-> FALSE]}
NewBatches == {<<a, b>> : a \in NewUsers, b \in BatchUsers}
BatchSizes == {1, 2}

\* GormRepository.CreateBatch up to its first INSERT
CreateUsers ==
    /\ batch = NoBatch
    /\ \E entities \in NewBatches, batchSize \in BatchSizes :
        LET r == CreateBatch(userStore, userSeq, NoBatch, entities, batchSize)
        IN /\ SeqRoom(Len(entities))
           /\ userStore' = r.store
           /\ userSeq' = r.seq
           /\ batch' = r.batch
    /\ UNCHANGED creating
    /\ StoreCall

\* the next INSERT of the CreateBatch under way, on the table as it is by now
CreateUsersNext ==
    /\ batch # NoBatch
    /\ LET r == CreateBatch(userStore, userSeq, batch, batch.rest, batch.size)
       IN /\ userStore' = r.store
          /\ userSeq' = r.seq
          /\ batch' = r.batch
    /\ UNCHANGED <<creating, storeCalls>>
    /\ StoreStep

\* UserRepository.CreateUserIfNotExists up to its test of EmailExists: with
\* the email in the table it ends there, reading the row; otherwise its
\* Create is still to come, in a statement and a transaction of its own
CreateUserIfNotExists ==
    /\ SeqRoom(1)
    /\ \E entity \in NewUsers :
        creating' = IF EmailExists(userStore, entity.Email) THEN creating
                    ELSE Append(creating, entity)
    /\ UNCHANGED <<userStore, userSeq, batch>>
    /\ StoreCall

\* the Create of a CreateUserIfNotExists that found no such email, on the
\* table as it is by now: it inserts, or takes its value of the sequence and
\* waits behind an uncommitted row with its email
CreateUserIfNotExistsCreate ==
    /\ \E i \in Unnumbered :
        IF Blocked(batch, creating[i])
        THEN /\ creating' = [creating EXCEPT ![i].ID = userSeq + 1]
             /\ userSeq' = userSeq + 1
             /\ UNCHANGED userStore
        ELSE /\ userStore' = Create(userStore, userSeq, creating[i]).store
             /\ userSeq' = Create(userStore, userSeq, creating[i]).seq
             /\ creating' = Without(i)
    /\ UNCHANGED <<storeCalls, batch>>
    /\ StoreStep

\* an INSERT that waited goes on when the transaction it waited for is
\* over: with the ID it took, when the email is free by then
CreateGoesOn ==
    /\ \E i \in (1..Len(creating)) \ Unnumbered :
        /\ ~Blocked(batch, creating[i])
        /\ userStore' = Create(userStore, userSeq, creating[i]).store
        /\ creating' = Without(i)
    /\ UNCHANGED <<userSeq, storeCalls, batch>>
    /\ StoreStep

\* GormRepository.HardDelete of a row of the table
DeleteUser ==
    /\ \E u \in userStore : userStore' = HardDelete(userStore, u.ID)
    /\ UNCHANGED <<userSeq, creating, batch>>
    /\ StoreCall

\* UserRepository.SoftDeleteUser of a row of the table
SoftDelete ==
    /\ \E u \in userStore : userStore' = SoftDeleteUser(userStore, u.ID).store
    /\ UNCHANGED <<userSeq, creating, batch>>
    /\ StoreCall

\* UserRepository.RestoreUser of a row of the table
Restore ==
    /\ \E u \in userStore : userStore' = RestoreUser(userStore, u.ID).store
    /\ UNCHANGED <<userSeq, creating, batch>>
    /\ StoreCall

\* UserRepository.UpdatePassword on a row of the table
ChangePassword ==
    /\ \E u \in userStore :
        userStore' = UpdatePassword(userStore, u.ID, Hash("builder-1")).store
    /\ UNCHANGED <<userSeq, creating, batch>>
    /\ StoreCall

\* time passes
StoreTick ==
    /\ scenario = "store"
    /\ resp = NoExchange
    /\ \E t \in StoreInstants : t > now /\ now' = t
    /\ UNCHANGED <<issuerKey, scenario, cacheVars, lockVars, pc, reqVars, callVars, histVars,
                   svcVars>>

NextStore ==
    \/ Login
    \/ Refresh
    \/ UpdateProfile
    \/ CreateUser
    \/ CreateUsers
    \/ CreateUsersNext
    \/ CreateUserIfNotExists
    \/ CreateUserIfNotExistsCreate
    \/ CreateGoesOn
    \/ DeleteUser
    \/ SoftDelete
    \/ Restore
    \/ ChangePassword
    \/ Answered
    \/ StoreTick

\* the auth service, its users table and one client
InitStore == InitWith("store")

SpecStore == InitStore /\ [][NextStore]_vars

(* --------------------------- the proxy at work ------------------------ *)

\* a handler of a proxied route calls ProxyRequest, which runs up to
\* client.Do, or answers 500 when the request cannot be made
ProxyRequest ==
    /\ scenario = "proxy"
    /\ proxy.stage = "idle"
    /\ \E route \in DOMAIN ProxyHandlers, env \in Envs, method \in ProxyMethods,
          path \in ProxyPaths, header \in ProxyHeaders :
        \E body \in ProxyBodies(method), query \in ProxyQueries :
            LET req == NewRequest(ProxyHandlers[route], env, method, path, body, header)
            IN proxy' =
                IF req = NoRequest
                THEN ProxyCall("done", route, env, method, path, query, body, header, NoRequest,
                               NoReply, NoRequest, 0, 0, NoReply,
                               ErrorJSON(StatusInternalServerError,
                                         "Failed to create proxy request"))
                ELSE ProxyCall("do", route, env, method, path, query, body, header, req,
                               NoReply,
                               req, 0, 1, NoReply, NoWritten)
    /\ UNCHANGED <<now, issuerKey, scenario, issuerVars, restVars, cacheVars, lockVars, pc, reqVars,
                   callVars, histVars>>

\* the backend answers a request of client.Do with a redirect, and client.Do
\* sends the next request
FollowRedirect ==
    /\ scenario = "proxy"
    /\ proxy.stage = "do"
    /\ proxy.hops < MaxHops
    /\ \E reply \in Replies :
        /\ ShouldRedirect(proxy.first, reply)
        /\ proxy' = [proxy EXCEPT !.req = RedirectRequest(proxy.req, reply),
                                  !.hops = @ + 1,
                                  !.firstReply = IF proxy.hops = 0 THEN reply ELSE @,
                                  !.reply = reply]
    /\ UNCHANGED <<now, issuerKey, scenario, issuerVars, restVars, cacheVars, lockVars, pc, reqVars,
                   callVars, histVars>>

\* client.Do returns, with a response or with an error, and ProxyRequest
\* writes its answer: lines 66-94
DoReturn ==
    /\ scenario = "proxy"
    /\ proxy.stage = "do"
    /\ \E reply \in Replies, copyErr \in CopyErrors :
        /\ ~ShouldRedirect(proxy.first, reply)
        /\ reply.transport # "" => copyErr = ""
        /\ proxy' = [proxy EXCEPT !.stage = "done",
                                  !.firstReply = IF proxy.hops = 0 THEN reply ELSE @,
                                  !.reply = reply,
                                  !.copyErr = copyErr,
                                  !.written =
                                      IF reply.transport # ""
                                      THEN Unavailable(ProxyHandlers[proxy.route])
                                      ELSE RelayResponse(reply, copyErr)]
    /\ UNCHANGED <<now, issuerKey, scenario, issuerVars, restVars, cacheVars, lockVars, pc, reqVars,
                   callVars, histVars>>

\* the handler has returned
ProxyDone ==
    /\ scenario = "proxy"
    /\ proxy.stage = "done"
    /\ proxy' = NoProxy
    /\ UNCHANGED <<now, issuerKey, scenario, issuerVars, restVars, cacheVars, lockVars, pc, reqVars,
                   callVars, histVars>>

NextProxy ==
    \/ ProxyRequest
    \/ FollowRedirect
    \/ DoReturn
    \/ ProxyDone

InitProxy == InitWith("proxy")

SpecProxy == InitProxy /\ [][NextProxy]_vars

(* ---------------------- the retrying proxy at work -------------------- *)

\* proxyRequest of the routes calls services.ProxyRequest, which looks the
\* service up and enters the loop: lines 98-106
ProxyRequestRetrying ==
    /\ scenario = "retry"
    /\ retry.stage = "idle"
    /\ \E service \in RetryServices, path \in RetryPaths, catalog \in CatalogAnswers,
          maxRetries \in 0..MaxRetryLimit :
        retry' =
            IF GetServiceURL(service, catalog) # ""
            THEN RetryCall("done", service, path, maxRetries, 0, 0, 0, 0, 0,
                           GetServiceURL(service, catalog))
            ELSE LoopTop(RetryCall("get", service, path, maxRetries, 0, 0, 0, 0, 0, ""), 0)
    /\ UNCHANGED <<now, issuerKey, scenario, issuerVars, proxyVars, storeVars, cacheVars,
                   lockVars, pc, reqVars, callVars, histVars>>

\* client.Get(url) is called: line 109
ClientGet ==
    /\ scenario = "retry"
    /\ retry.stage = "get"
    /\ retry' = [retry EXCEPT !.stage = "wait", !.attempts = @ + 1, !.inflight = @ + 1]
    /\ UNCHANGED <<now, issuerKey, scenario, issuerVars, proxyVars, storeVars, cacheVars,
                   lockVars, pc, reqVars, callVars, histVars>>

\* client.Get returns: with a response, which is returned at once, or with
\* an error, after which the loop sleeps or goes on: lines 110-119
GetReturn ==
    /\ scenario = "retry"
    /\ retry.stage = "wait"
    /\ \E err \in {"", "connection refused"} :
        retry' =
            IF err = ""
            THEN [retry EXCEPT !.stage = "done", !.inflight = @ - 1, !.result = "ok"]
            ELSE IF SleepsAfter(retry.attempt, retry.maxRetries)
            THEN [retry EXCEPT !.stage = "sleep", !.inflight = @ - 1, !.failed = @ + 1,
                               !.sleeps = @ + 1]
            ELSE LoopTop([retry EXCEPT !.inflight = @ - 1, !.failed = @ + 1],
                         retry.attempt + 1)
    /\ UNCHANGED <<now, issuerKey, scenario, issuerVars, proxyVars, storeVars, cacheVars,
                   lockVars, pc, reqVars, callVars, histVars>>

\* time.Sleep returns and the loop goes to its next iteration
SleepOver ==
    /\ scenario = "retry"
    /\ retry.stage = "sleep"
    /\ retry' = LoopTop(retry, retry.attempt + 1)
    /\ UNCHANGED <<now, issuerKey, scenario, issuerVars, proxyVars, storeVars, cacheVars,
                   lockVars, pc, reqVars, callVars, histVars>>

\* proxyRequest has written its answer
RetryDone ==
    /\ scenario = "retry"
    /\ retry.stage = "done"
    /\ retry' = NoRetry
    /\ UNCHANGED <<now, issuerKey, scenario, issuerVars, proxyVars, storeVars, cacheVars,
                   lockVars, pc, reqVars, callVars, histVars>>

NextRetry ==
    \/ ProxyRequestRetrying
    \/ ClientGet
    \/ GetReturn
    \/ SleepOver
    \/ RetryDone

InitRetry == InitWith("retry")

\* the goroutine of the request keeps running, client.Get returns within the
\* client's timeout and time.Sleep returns
SpecRetry ==
    /\ InitRetry /\ [][NextRetry]_vars
    /\ WF_vars(ClientGet) /\ WF_vars(GetReturn) /\ WF_vars(SleepOver)

(* ------------------------- the public-key cache ----------------------- *)

\* the cached key is unexpired
Unexpired == cachedPublicKey # Nil /\ now < publicKeyExpiry

\* p's call and the calls that overlapped it all found the cache nil and have
\* all returned
HerdReturned(p) ==
    /\ peers[p] # {}
    /\ \A q \in peers[p] \cup {p} :
        pc[q] = "validate" /\ cold[q] /\ (q # p => p \in peers[q])

Herd(p) == peers[p] \cup {p}

\* C3 as stated: concurrent callers of getPublicKey on a cold cache cause
\* exactly one GET, and each of them gets the same key.
C3_ExactlyOneFetch ==
    \A p \in Procs :
        HerdReturned(p) =>
            /\ Cardinality({q \in Herd(p) : fetched[q] # ""}) = 1
            /\ \A q \in Herd(p) : keyErr[q] = "" /\ key[q] = key[p]

\* C3 amended: as long as the key of the first successful fetch is
\* unexpired, concurrent callers on a cold cache cause at most one
\* successful GET, exactly one GET when none fails, a caller gets an error
\* only from its own failed GET, and all that get a key get the same key.
C3_OneSuccessfulFetch ==
    \A p \in Procs :
        (HerdReturned(p) /\ (firstExpiry = Nil \/ now < firstExpiry)) =>
            /\ Cardinality({q \in Herd(p) : fetched[q] = "ok"}) <= 1
            /\ (\A q \in Herd(p) : fetched[q] # "fail")
                   => Cardinality({q \in Herd(p) : fetched[q] # ""}) = 1
            /\ \A q \in Herd(p) : keyErr[q] # "" <=> fetched[q] = "fail"
            /\ \A q, r \in Herd(p) : (keyErr[q] = "" /\ keyErr[r] = "") => key[q] = key[r]

\* two overlapping cold callers returned: one fetched, the other got the same
\* key from the double check
C3_Witness ==
    \E p, q \in Procs :
        /\ p # q /\ HerdReturned(p)
        /\ q \in peers[p]
        /\ fetched[p] = "ok" /\ fetched[q] = ""
        /\ key[p] # Nil /\ key[q] = key[p]

\* C4: a fetch that fails returns an error and no key, and leaves
\* cachedPublicKey and publicKeyExpiry as they were.
C4_FailedFetchKeepsCache ==
    [][\A p \in Procs :
          (pc[p] = "fetch" /\ pc'[p] # "fetch") =>
              \/ /\ keyErr'[p] = ""
                 /\ key'[p] = issuerKey
                 /\ cachedPublicKey' = issuerKey
                 /\ publicKeyExpiry' = now + KeyTTL
              \/ /\ keyErr'[p] # ""
                 /\ key'[p] = Nil
                 /\ cachedPublicKey' = cachedPublicKey
                 /\ publicKeyExpiry' = publicKeyExpiry]_vars

\* a refetch of an expired key failed on a non-RSA key: the old key and its
\* expiry are still in the cache
C4_Witness ==
    \E p \in Procs :
        /\ pc[p] = "validate"
        /\ keyErr[p] = "not an RSA public key"
        /\ cachedPublicKey # Nil
        /\ publicKeyExpiry = KeyTTL
        /\ now >= publicKeyExpiry

\* C5: at most one call is fetching at any moment; the one that fetches
\* holds the write lock, no reader is inside, and the cache it re-checked is
\* empty or expired.
C5_OneFetchInFlight ==
    /\ Cardinality({p \in Procs : pc[p] = "fetch"}) <= 1
    /\ \A p \in Procs :
        pc[p] = "fetch" =>
            /\ rwWriter = p
            /\ rwReaders = {}
            /\ (cachedPublicKey = Nil \/ now >= publicKeyExpiry)

\* one call fetches while another waits for the write lock
C5_Witness ==
    \E p, q \in Procs : pc[p] = "fetch" /\ pc[q] = "lock"

\* C6 as stated: a call made while the cached key is unexpired never blocks
\* behind another caller.
C6_NeverBlocks ==
    \A p \in Procs : (pc[p] = "rlock" /\ Unexpired) => ENABLED RLock(p)

\* C6 amended: while the cached key is unexpired no fetch is in flight, so a
\* call never waits on the network; its RLock is never held up by readers,
\* only by a caller that awaits or holds the write lock for its double
\* check; any number of readers are inside together.
C6_BlocksOnlyOnDoubleCheck ==
    \A p \in Procs :
        (pc[p] = "rlock" /\ Unexpired) =>
            /\ \A q \in Procs : pc[q] # "fetch"
            /\ rwWriter = Nil => ENABLED RLock(p)
            /\ rwWriter # Nil => pc[rwWriter] = "lockwait"

\* a reader is let in while another reader is inside, the key unexpired
C6_Witness ==
    \E p, q \in Procs :
        /\ p # q /\ Unexpired
        /\ pc[p] = "rlock" /\ pc[q] = "rcheck" /\ q \in rwReaders
        /\ ENABLED RLock(p)

\* the calls that found the cached key unexpired on the fast path and have
\* not read it yet
ReadPending == {p \in Procs : pc[p] = "fastread"}

\* C7 as stated: while the cached key is unexpired it stays in the cache, and
\* every call that finds it unexpired returns that same key without a GET:
\* the double check hands it over at once, and no other key comes into the
\* cache between the test of the fast path and its return.
C7_ServedFromCache ==
    [][/\ Unexpired =>
             /\ cachedPublicKey' = cachedPublicKey
             /\ publicKeyExpiry' = publicKeyExpiry
             /\ \A p \in Procs : pc'[p] = "fetch" => pc[p] = "fetch"
             /\ \A p \in Procs :
                 (pc[p] \in {"rcheck", "lockwait"} /\ pc'[p] # pc[p]) =>
                     /\ pc'[p] = (IF pc[p] = "rcheck" THEN "fastread" ELSE "validate")
                     /\ pc'[p] = "validate" => key'[p] = cachedPublicKey
                     /\ keyErr'[p] = ""
                     /\ fetched'[p] = ""
       /\ \A p \in ReadPending :
             /\ cachedPublicKey' = cachedPublicKey
             /\ pc'[p] # pc[p] =>
                   (pc'[p] = "validate" /\ key'[p] = cachedPublicKey
                    /\ keyErr'[p] = "" /\ fetched'[p] = "")]_vars

(* --------------------------- the middlewares -------------------------- *)

RSAFamily == {"RS256", "RS384", "RS512"}

\* the header is "Bearer <token>", the token decodes, declares an RSA
\* algorithm, is signed by key pair k and is an access token
WellSigned(h, k) ==
    /\ h.scheme = "Bearer" /\ h.spaces = 1
    /\ h.cred.enc = "jwt"
    /\ h.cred.alg \in RSAFamily
    /\ k # Nil /\ h.cred.sig = k

\* ... and it is an access token inside its validity window at time t
GoodAccessToken(h, k, t) ==
    /\ WellSigned(h, k)
    /\ h.cred.type = TokenTypeAccess
    /\ h.cred.nbf <= t /\ t < h.cred.exp

\* p's middleware ends in this step
Ends(p) == pc[p] # "done" /\ pc'[p] = "done"

Rejected401(o) ==
    /\ o.status = StatusUnauthorized
    /\ o.error # ""
    /\ o.aborted
    /\ o.next = 0
    /\ HandlerRuns(o) = 0
    /\ o.keys = {}

AllIdentityKeys == {"user_id", "email", "is_admin", "authenticated"}

\* C1: AuthMiddleware passes a request on only if the token's signature
\* verifies under the key getPublicKey returned for the request; a token
\* signed by any other key pair gets 401 and the chain is aborted.
C1_SignatureUnderReturnedKey ==
    \A p \in Procs :
        (pc[p] = "done" /\ mode[p] = "required") =>
            /\ HandlerRuns(out[p]) > 0 =>
                   (key[p] # Nil /\ hdr[p].scheme = "Bearer" /\ hdr[p].cred.sig = key[p])
            /\ hdr[p].cred.sig # key[p] => Rejected401(out[p])

\* an unexpired RS256 access token signed by another key pair than the
\* returned one was turned away
C1_Witness ==
    \E p \in Procs :
        /\ pc[p] = "done" /\ mode[p] = "required"
        /\ key[p] # Nil
        /\ \E k \in KeyIds : k # key[p] /\ GoodAccessToken(hdr[p], k, now)
        /\ hdr[p].cred.alg = "RS256"
        /\ Rejected401(out[p])

\* C2: a token of type refresh is never accepted: AuthMiddleware answers 401
\* and aborts, OptionalAuthMiddleware sets no identity key.
C2_RefreshNeverAccepted ==
    \A p \in Procs :
        (pc[p] = "done" /\ hdr[p].cred.enc = "jwt" /\ hdr[p].cred.type = TokenTypeRefresh) =>
            /\ mode[p] = "required" => Rejected401(out[p])
            /\ mode[p] = "optional" => (out[p].keys = {} /\ out[p].id = NoIdentity)

\* a refresh token with a good signature, inside its window, was turned away
C2_Witness ==
    \E p \in Procs :
        /\ pc[p] = "done" /\ mode[p] = "required"
        /\ WellSigned(hdr[p], key[p])
        /\ hdr[p].cred.type = TokenTypeRefresh
        /\ hdr[p].cred.nbf <= now /\ now < hdr[p].cred.exp
        /\ Rejected401(out[p])

\* C8: whatever makes authentication fail in AuthMiddleware, the answer is
\* 401 with an error field, the chain is aborted and no later handler runs.
C8_FailureIs401Abort ==
    [][\A p \in Procs :
          (Ends(p) /\ mode'[p] = "required" /\ ~GoodAccessToken(hdr'[p], key[p], now))
              => Rejected401(out'[p])]_vars

\* the public key was unavailable for a request with a good token: 401
C8_Witness ==
    \E p \in Procs :
        /\ pc[p] = "done" /\ mode[p] = "required"
        /\ key[p] = Nil
        /\ GoodAccessToken(hdr[p], issuerKey, now)
        /\ Rejected401(out[p])

\* C9: OptionalAuthMiddleware always calls the next handler once, writes no
\* response and never aborts; it sets the identity keys exactly when the
\* header is "Bearer <token>" and the token is a valid access token under the
\* key getPublicKey returned.
C9_OptionalAlwaysContinues ==
    [][\A p \in Procs :
          (Ends(p) /\ mode'[p] = "optional") =>
              /\ out'[p].next = 1 /\ HandlerRuns(out'[p]) = 1
              /\ out'[p].status = 0 /\ out'[p].error = "" /\ ~out'[p].aborted
              /\ IF GoodAccessToken(hdr'[p], key[p], now)
                 THEN /\ out'[p].keys = AllIdentityKeys
                      /\ out'[p].id.user_id = hdr'[p].cred.user_id
                 ELSE out'[p].keys = {} /\ out'[p].id = NoIdentity]_vars

\* a request whose token is signed by another key pair went on unidentified
C9_Witness ==
    \E p \in Procs :
        /\ pc[p] = "done" /\ mode[p] = "optional"
        /\ key[p] # Nil
        /\ \E k \in KeyIds : k # key[p] /\ GoodAccessToken(hdr[p], k, now)
        /\ out[p].next = 1 /\ out[p].status = 0 /\ out[p].keys = {}

\* C10: with a good signature and the access type, a token is accepted
\* exactly when notBefore <= now < expiresAt, now being the second of the
\* verification.
C10_NoLeeway ==
    [][\A p \in Procs :
          (pc[p] = "validate" /\ pc'[p] = "done" /\ WellSigned(hdr[p], key[p])
           /\ hdr[p].cred.type = TokenTypeAccess) =>
              ((out'[p].status = 0 /\ out'[p].next = 1 /\ out'[p].keys # {})
                   <=> (hdr[p].cred.nbf <= now /\ now < hdr[p].cred.exp))]_vars

\* a token was accepted in the last second before its expiry
C10_Witness ==
    \E p \in Procs :
        /\ pc[p] = "done"
        /\ WellSigned(hdr[p], key[p])
        /\ now + 1 = hdr[p].cred.exp
        /\ out[p].status = 0 /\ out[p].keys # {}

(* ------------------- tokens between issuer and gateway ---------------- *)

\* the Authorization header "Bearer <tok>"
Bearer(tok) == MakeHeader("Bearer", 1, tok)

\* t lies in [issuedAt, expiresAt) of the token
InWindow(tok, t) == tok.iat <= t /\ t < tok.exp

\* the claims are those GenerateTokenPair signs for a user of the service
\* under the configured duration
SignedFor(claims, type, ttl) ==
    /\ claims.Type = type
    /\ claims.Issuer = JWTIssuer
    /\ claims.NotBefore = claims.IssuedAt
    /\ claims.ExpiresAt = claims.IssuedAt + ttl
    /\ claims.Subject = claims.UserID
    /\ \E u \in Users :
        claims.UserID = Itoa(u.ID) /\ claims.Email = u.Email /\ claims.IsAdmin = u.IsAdmin

\* the gateway let the request through with the identity of the claims
PassedAs(o, tok) ==
    /\ o.status = 0 /\ o.next = 1 /\ ~o.aborted
    /\ o.id.user_id = tok.user_id /\ o.id.email = tok.email /\ o.id.is_admin = tok.is_admin

\* C11: the access token GenerateTokenPair made, verified with the matching
\* public key at a second of [issuedAt, expiresAt), is accepted by
\* ValidateJWTToken with the claims that were signed, by the issuer's
\* middleware, and by the gateway's validateJWTLocally with the same identity.
C11_AccessRoundTrip ==
    held # NoPair =>
        /\ InWindow(held.access, now) =>
              LET v == ValidateJWTToken(TokenString(held.access), held.access.sig, now)
              IN /\ v.err = ""
                 /\ SignedFor(v.claims, TokenTypeAccess, accessTokenDuration)
                 /\ SignedString(v.claims, held.access.sig) = held.access
        /\ (/\ resp.route = "logout" /\ resp.body.has
            /\ resp.hdr = Bearer(held.access)
            /\ held.access.sig = issuerKey
            /\ InWindow(held.access, now)) => resp.status = StatusOK
        /\ \A p \in Procs :
              (/\ pc[p] = "done"
               /\ hdr[p] = Bearer(held.access)
               /\ key[p] = held.access.sig
               /\ InWindow(held.access, now)) =>
                  /\ PassedAs(out[p], held.access)
                  /\ \E u \in Users :
                      /\ out[p].id.user_id = Itoa(u.ID)
                      /\ out[p].id.email = u.Email
                      /\ out[p].id.is_admin = u.IsAdmin

\* the gateway passed the administrator's access token in the last second
\* before its expiry, with her identity
C11_Witness ==
    \E p \in Procs :
        /\ pc[p] = "done" /\ held # NoPair
        /\ hdr[p] = Bearer(held.access)
        /\ key[p] = held.access.sig
        /\ now + 1 = held.access.exp
        /\ PassedAs(out[p], held.access)
        /\ out[p].id.is_admin

\* the token decodes and its header declares no RSA signature method
NonRSA(tok) == tok.enc = "jwt" /\ tok.alg \notin RSAFamily

\* C12: a token whose header declares a non-RSA algorithm is never accepted,
\* whatever its signature: the gateway answers 401 and aborts, the issuer's
\* middleware answers 401, and refresh issues no pair for it.
C12_NonRSARejected ==
    /\ \A p \in Procs :
          (pc[p] = "done" /\ hdr[p].scheme = "Bearer" /\ NonRSA(hdr[p].cred))
              => Rejected401(out[p])
    /\ (resp.route \in {"logout", "refresh"} /\ resp.hdr.scheme = "Bearer"
         /\ NonRSA(resp.hdr.cred))
            => (resp.status = StatusUnauthorized /\ resp.error = "Invalid or expired token")
    /\ (resp.route = "refresh" /\ resp.body.has /\ NonRSA(resp.body.tok))
            => resp.status = StatusUnauthorized

\* refresh, behind a good access token, turned away a refresh token that is
\* unexpired and signed with the current key but declares "none"
C12_Witness ==
    /\ held # NoPair
    /\ resp.route = "refresh" /\ resp.body.has
    /\ resp.hdr = Bearer(held.access)
    /\ resp.body.tok = Tamper(held.refresh, "none")
    /\ held.refresh.sig = issuerKey /\ InWindow(held.refresh, now)
    /\ resp.status = StatusUnauthorized
    /\ resp.error = "Invalid or expired refresh token"

(* --------------------------- the auth service ------------------------- *)

\* C13 as stated: a login with an unknown email and a login with a known
\* email and a wrong password get the same status and the same body.
C13_LoginIndistinguishable ==
    (loginSeen.unknown # NoAnswer /\ loginSeen.wrong # NoAnswer) =>
        /\ loginSeen.unknown.status = loginSeen.wrong.status
        /\ loginSeen.unknown.error = loginSeen.wrong.error
        /\ loginSeen.unknown.message = loginSeen.wrong.message

\* the token is one the refresh operation may take at time t under key k:
\* RSA-signed with k, of type refresh, and t in [nbf, exp)
GoodRefresh(tok, k, t) ==
    /\ tok.enc = "jwt" /\ tok.alg \in RSAFamily /\ tok.sig = k
    /\ tok.type = TokenTypeRefresh
    /\ tok.nbf <= t /\ t < tok.exp

\* the pair is a fresh one for the identity of tok, made at t under key k
PairFor(pair, tok, k, t, ttl) ==
    /\ \A n \in {pair.access, pair.refresh} :
        /\ n.user_id = tok.user_id /\ n.email = tok.email /\ n.is_admin = tok.is_admin
        /\ n.sub = tok.user_id /\ n.sig = k /\ n.alg = "RS256" /\ n.iat = t /\ n.nbf = t
    /\ pair.access.type = TokenTypeAccess /\ pair.access.exp = t + ttl
    /\ pair.refresh.type = TokenTypeRefresh /\ pair.refresh.exp = t + RefreshTokenDuration
    /\ pair.expires_in = ttl

\* C14: refresh issues a pair only for a token that is signature-valid,
\* unexpired and of type refresh, and then the pair carries the user id, the
\* email and is_admin of that token; every other token, a valid access token
\* among them, gets 401 and no pair.
C14_RefreshOnlyForRefresh ==
    /\ \A tok \in PresentableInBody(held), t \in IssuerInstants :
          LET ans == RefreshHandler(Body(TRUE, tok), issuerKey, t, accessTokenDuration)
          IN IF GoodRefresh(tok, issuerKey, t)
             THEN /\ ans.status = StatusOK
                  /\ PairFor(ans.pair, tok, issuerKey, t, accessTokenDuration)
             ELSE /\ ans.status = StatusUnauthorized
                  /\ ans.error = "Invalid or expired refresh token"
                  /\ ans.pair = NoPair
    /\ resp.route = "refresh" =>
          /\ resp.status = StatusOK =>
                /\ resp.body.has
                /\ GoodRefresh(resp.body.tok, issuerKey, now)
                /\ PairFor(held, resp.body.tok, issuerKey, now, accessTokenDuration)
          /\ (resp.body.has /\ resp.body.tok.type = TokenTypeAccess)
                => resp.status = StatusUnauthorized

\* the service answered 401 to a refresh whose refresh_token was the good
\* access token that also authenticated the request
C14_Witness ==
    /\ held # NoPair
    /\ resp.route = "refresh" /\ resp.body.has
    /\ resp.hdr = Bearer(held.access)
    /\ resp.body.tok = held.access
    /\ held.access.sig = issuerKey /\ InWindow(held.access, now)
    /\ resp.status = StatusUnauthorized
    /\ resp.error = "Invalid or expired refresh token"

\* C15 as stated: refresh is a public route, so a request whose body holds a
\* refresh token that is signature-valid, unexpired and of type refresh gets
\* a new pair whatever its Authorization header: none, or an access token
\* that has expired.
C15_RefreshIsPublic ==
    (/\ resp.route = "refresh" /\ resp.body.has
     /\ GoodRefresh(resp.body.tok, issuerKey, now)
     /\ \/ EmptyHeader(resp.hdr)
        \/ (resp.hdr.scheme = "Bearer" /\ resp.hdr.cred.enc = "jwt"
            /\ resp.hdr.cred.type = TokenTypeAccess /\ resp.hdr.cred.exp <= now))
        => resp.status = StatusOK

\* what the three validators say of a token under issuer key k and cached
\* gateway key c at time t
Verdicts(tok, k, c, t) ==
    <<ValidateJWTToken(TokenString(tok), k, t).err,
      ValidateRefreshToken(TokenString(tok), k, t).err,
      validateJWTLocally(TokenString(tok), c, "", t).err>>

\* C16: a successful logout changes no state of the issuer or of the gateway
\* (keys, cache, lock, clock, configuration): every token the client holds,
\* the access token that authenticated the call and the refresh token in its
\* body get from the issuer's validators and from the gateway's the verdict
\* they got before, and the middleware still passes the access token.
C16_LogoutChangesNothing ==
    [][(nreq' = nreq + 1 /\ resp'.route = "logout" /\ resp'.status = StatusOK) =>
          /\ UNCHANGED <<now, issuerKey, accessTokenDuration, held, loginSeen, proxy,
                         userStore, cachedPublicKey, publicKeyExpiry, rwReaders, rwWriter, pc, key,
                         keyErr, out>>
          /\ \A tok \in Presentable(held) \cup {resp'.hdr.cred, resp'.body.tok} :
                Verdicts(tok, issuerKey', cachedPublicKey', now')
                    = Verdicts(tok, issuerKey, cachedPublicKey, now)
          /\ ValidateJWTToken(TokenString(resp'.hdr.cred), issuerKey', now').err = ""
          /\ HandlerRuns(JwtAuthMiddleware(resp'.hdr, issuerKey', now')) = 1
      ]_vars

\* a logout answered 200 to the pair the client holds, and refresh would
\* still take the refresh token that was in its body
C16_Witness ==
    /\ held # NoPair
    /\ resp.route = "logout" /\ resp.status = StatusOK
    /\ resp.message = "Logged out successfully"
    /\ resp.hdr = Bearer(held.access)
    /\ resp.body = Body(TRUE, held.refresh)
    /\ RefreshHandler(resp.body, issuerKey, now, accessTokenDuration).status = StatusOK
    /\ cachedPublicKey = issuerKey

(* ------------------------------ the proxy ----------------------------- *)

\* host and port of a service of the model in an environment of the model
HostPort(serviceName, env) ==
    IF env = StatsEnv /\ serviceName = "stats" THEN "10.0.0.5:9090"
    ELSE IF env = AuthEnv /\ serviceName = "auth" THEN "auth-service:8080"
    ELSE serviceName \o ":8080"

\* C17 as stated: the request is forwarded to the backend of the route, at
\* the host and port of its service in the gateway's environment, with the
\* method and the body it came with, and when the backend answered it and
\* the client took the whole answer, the status and the body of the
\* backend's response to it are what the client gets.
C17_ForwardedUnmodified ==
    (/\ proxy.stage = "done"
     /\ proxy.firstReply # NoReply /\ proxy.firstReply.transport = ""
     /\ proxy.copyErr = "") =>
        /\ proxy.first.method = proxy.method
        /\ proxy.first.body = proxy.body
        /\ proxy.first.url.host \o ":" \o proxy.first.url.port
              = HostPort(ProxyHandlers[proxy.route], proxy.env)
        /\ proxy.written.status = proxy.firstReply.status
        /\ proxy.written.body = proxy.firstReply.body

\* C18 as stated: every (name, value) pair of the headers of the response
\* client.Do returned, each of several values under one name included, is in
\* the headers written to the client.
C18_HeadersRelayed ==
    (proxy.stage = "done" /\ proxy.reply # NoReply /\ proxy.reply.transport = "") =>
        \A n \in HeaderNames :
            \A i \in 1..Len(proxy.reply.header[n]) :
                \E j \in 1..Len(proxy.written.header[n]) :
                    proxy.written.header[n][j] = proxy.reply.header[n][i]

\* C19 as stated: the backend is reported unavailable only after the
\* configured number of retries, that is after MaxRetries + 1 failed calls.
C19_RetriesBeforeUnavailable ==
    (proxy.stage = "done" /\ proxy.written.status = StatusBadGateway) =>
        proxy.attempts = MaxRetries + 1

(* --------------------------- an issuer restart ------------------------ *)

\* the pair the client holds was signed before the last restart
IssuedBeforeRestart == held # NoPair /\ held.access.sig # issuerKey

\* C20 as stated: after a restart every token issued before it fails at the
\* issuer's validators and at the gateway's validateJWTLocally.
C20_OldTokensFail ==
    IssuedBeforeRestart =>
        /\ \A tok \in {held.access, held.refresh} :
              /\ ValidateJWTToken(TokenString(tok), issuerKey, now).err # ""
              /\ ValidateRefreshToken(TokenString(tok), issuerKey, now).err # ""
        /\ \A p \in Procs :
              (pc[p] = "done" /\ hdr[p].scheme = "Bearer"
               /\ hdr[p].cred \in {held.access, held.refresh})
                  => Rejected401(out[p])

\* C20 amended: after a restart every token issued before it fails at the
\* issuer (ValidateJWTToken, ValidateRefreshToken, the routes behind the
\* middleware) at any time; the gateway turns it away whenever getPublicKey
\* returned the issuer's current key, and lets an old access token pass only
\* under the old key, which it got before the restart and may keep cached
\* until publicKeyExpiry.
C20_OldTokensFailOnceRefetched ==
    IssuedBeforeRestart =>
        /\ \A tok \in {held.access, held.refresh}, t \in IssuerInstants :
              /\ ValidateJWTToken(TokenString(tok), issuerKey, t).err # ""
              /\ ValidateRefreshToken(TokenString(tok), issuerKey, t).err # ""
        /\ (resp.route \in {"logout", "refresh"} /\ resp.hdr.scheme = "Bearer"
             /\ resp.hdr.cred \in {held.access, held.refresh})
                => resp.status = StatusUnauthorized
        /\ \A p \in Procs :
              (pc[p] = "done" /\ hdr[p].scheme = "Bearer"
               /\ hdr[p].cred \in {held.access, held.refresh}) =>
                  /\ (keyErr[p] = "" /\ key[p] = issuerKey) => Rejected401(out[p])
                  /\ ~Rejected401(out[p]) =>
                        /\ key[p] = held.access.sig
                        /\ hdr[p].cred = held.access
                        /\ InWindow(held.access, now)

\* after a restart the gateway fetched the new key and turned away the
\* access token of before the restart, which has not expired
C20_Witness ==
    \E p \in Procs :
        /\ IssuedBeforeRestart
        /\ pc[p] = "done" /\ hdr[p] = Bearer(held.access)
        /\ InWindow(held.access, now)
        /\ keyErr[p] = "" /\ key[p] = issuerKey
        /\ Rejected401(out[p])
        /\ ValidateJWTToken(TokenString(held.access), issuerKey, now).err # ""

(* ---------------------------- the UI routes --------------------------- *)

\* the UI paths of the model, by their segments: /, /profile, /profile/edit,
\* /profiles, /dashboard, /camera/live
UIPaths ==
    {<<>>, <<"profile">>, <<"profile", "edit">>, <<"profiles">>, <<"dashboard">>,
     <<"camera", "live">>}

\* the GET routes main registers before router.Use(OptionalAuthMiddleware()):
\* "/", "/profile" and "/profile/*path"
PublicUIRoute(path) == path = <<>> \/ path[1] = "profile"

\* the middleware in front of ServeReactApp on a UI path: none on the three
\* routes, OptionalAuthMiddleware on NoRoute
UIMiddleware(path) == IF PublicUIRoute(path) THEN "none" ELSE "optional"

\* whether ServeReactApp runs for a GET of the path whose middleware, if it
\* has one, ended with outcome o
ServesReactApp(path, o) ==
    IF UIMiddleware(path) = "none" THEN TRUE ELSE HandlerRuns(o) = 1

\* C21 as stated: a request to a UI route other than /, /profile and
\* /profile/* that carries no valid access token is not served the React
\* application.
C21_UIRequiresAuth ==
    \A p \in Procs :
        (pc[p] = "done" /\ mode[p] = "optional" /\ "authenticated" \notin out[p].keys) =>
            \A path \in UIPaths :
                UIMiddleware(path) = mode[p] => ~ServesReactApp(path, out[p])

(* ---------------------- the proxy and the auth service ----------------- *)

\* the wildcard parameter of the inbound path /api/v1/auth/login
LoginParam == <<"/", "l", "o", "g", "i", "n">>

\* C22 as stated: POST /api/v1/auth/login at the gateway goes to the host
\* auth-service at a path on which the auth service registers LoginHandler.
C22_LoginDelivered ==
    (/\ proxy.stage \in {"do", "done"} /\ proxy.first # NoRequest
     /\ proxy.route = "auth" /\ proxy.method = "POST" /\ proxy.path = LoginParam) =>
        /\ proxy.first.url.host = "auth-service"
        /\ AuthServiceHandler(proxy.first.method, PathString(proxy.first.url.path))
               = "LoginHandler"

(* --------------------------- the retry loop --------------------------- *)

\* the loop of the call was entered
InLoop == retry.stage \in {"get", "wait", "sleep"}

\* what holds of the attempts and sleeps of a call at every moment
RetryBounds ==
    /\ retry.inflight <= 1
    /\ retry.inflight = 1 <=> retry.stage = "wait"
    /\ retry.attempts <= retry.maxRetries + 1
    /\ retry.failed + retry.inflight <= retry.attempts
    /\ retry.sleeps <= retry.maxRetries
    /\ retry.stage = "sleep" =>
          (retry.sleeps = retry.failed /\ retry.attempts <= retry.maxRetries)
    /\ retry.stage = "get" => retry.sleeps = retry.attempts
    /\ (retry.stage = "done" /\ retry.result = "ok") =>
          (retry.failed = retry.attempts - 1 /\ retry.sleeps = retry.failed)
    /\ (retry.stage = "done" /\ retry.result = "request failed after retries") =>
          /\ retry.attempts = retry.maxRetries + 1
          /\ retry.failed = retry.attempts
          /\ retry.sleeps = retry.maxRetries

\* C23: the attempts of the retry loop are made one after the other, the
\* first response is returned with no further attempt, there are never more
\* than MaxRetries+1 attempts, a sleep follows a failed attempt only when
\* another attempt follows, the loop's error is returned only after exactly
\* MaxRetries+1 failed attempts, and a call that entered the loop returns.
C23_RetryLoop == []RetryBounds /\ (InLoop ~> retry.stage = "done")

\* with two retries configured the third attempt failed after two sleeps and
\* the loop returned its error
C23_Witness ==
    /\ retry.stage = "done" /\ retry.result = "request failed after retries"
    /\ retry.maxRetries = 2 /\ retry.attempts = 3 /\ retry.failed = 3 /\ retry.sleeps = 2

(* ----------------------- the cached pair as a whole ------------------- *)

\* the cache is empty as at the start, or holds a key and an expiry one
\* hour after an instant that is not in the future
CachePairWhole ==
    \/ cachedPublicKey = Nil /\ publicKeyExpiry = 0
    \/ /\ cachedPublicKey \in KeyIds
       /\ publicKeyExpiry >= KeyTTL /\ publicKeyExpiry <= now + KeyTTL

\* a step that writes the cache is the return of one successful fetch, made
\* by the goroutine that holds the write lock while no reader holds the read
\* lock, and it writes the fetched key and now plus one hour together
WrittenByOneFetch ==
    (<<cachedPublicKey, publicKeyExpiry>>' # <<cachedPublicKey, publicKeyExpiry>>) =>
        \E p \in Procs :
            /\ pc[p] = "fetch" /\ rwWriter = p /\ rwReaders = {}
            /\ fetched'[p] = "ok" /\ keyErr'[p] = ""
            /\ cachedPublicKey' = issuerKey /\ key'[p] = issuerKey
            /\ publicKeyExpiry' = now + KeyTTL

\* a caller that is handed a key by the double check gets the cached key
\* while the expiry stored with it lies ahead, and holds the lock that keeps
\* a writer out while it looks; a caller of the fast path returns the key of
\* the pair it tested: no fetch stores a pair between its test and its read
ObservedWhole ==
    /\ \A p \in Procs :
          (pc[p] = "lockwait" /\ pc'[p] = "validate") =>
              /\ key'[p] = cachedPublicKey /\ cachedPublicKey # Nil
              /\ now < publicKeyExpiry
              /\ UNCHANGED <<cachedPublicKey, publicKeyExpiry>>
              /\ \A q \in Procs : pc[q] = "fetch" => (q = rwWriter /\ p \notin rwReaders)
    /\ \A p \in Procs :
          (pc[p] = "rcheck" /\ pc'[p] = "fastread") =>
              /\ cachedPublicKey # Nil /\ now < publicKeyExpiry
              /\ UNCHANGED <<cachedPublicKey, publicKeyExpiry>>
    /\ ReadPending # {} => UNCHANGED <<cachedPublicKey, publicKeyExpiry>>

\* C24 as stated: the pair (cachedPublicKey, publicKeyExpiry) is the empty
\* pair of the start or the pair one successful fetch wrote, the expiry being that
\* fetch's store time plus one hour; no caller is handed the key of one
\* fetch with the expiry of another; a key once set is never reset to nil.
C24_PairWrittenWhole ==
    /\ []CachePairWhole
    /\ [][/\ WrittenByOneFetch
          /\ ObservedWhole
          /\ cachedPublicKey # Nil => cachedPublicKey' # Nil]_vars

(* ------------------------ the cache fails closed ---------------------- *)

\* the cache holds a key whose expiry has come
Stale == cachedPublicKey # Nil /\ now >= publicKeyExpiry

\* C25 as stated: once now >= publicKeyExpiry no call of getPublicKey
\* returns the key cached before: the fast path and the double check both
\* miss and the call goes to the issuer, and a call that is past the test of
\* the fast path does not return that key either; a call whose fetch fails
\* returns an error and no key and leaves the stale pair in place, and
\* AuthMiddleware answers it 401 and aborts, whatever the token; a key is
\* returned only by a fetch that succeeded and stored it anew.
C25_FailsClosed ==
    [][\A p \in Procs :
          /\ Stale =>
                /\ (pc[p] = "rcheck" /\ pc'[p] # pc[p]) =>
                      (pc'[p] = "lock" /\ key'[p] = key[p])
                /\ (pc[p] = "fastread" /\ pc'[p] # pc[p]) =>
                      key'[p] # cachedPublicKey
                /\ (pc[p] = "lockwait" /\ pc'[p] # pc[p]) =>
                      (pc'[p] = "fetch" /\ key'[p] = key[p])
                /\ (pc[p] = "fetch" /\ pc'[p] = "validate") =>
                      \/ /\ fetched'[p] = "fail"
                         /\ keyErr'[p] # "" /\ key'[p] = Nil
                         /\ UNCHANGED <<cachedPublicKey, publicKeyExpiry>>
                      \/ /\ fetched'[p] = "ok"
                         /\ keyErr'[p] = "" /\ key'[p] = issuerKey
                         /\ cachedPublicKey' = issuerKey
                         /\ publicKeyExpiry' = now + KeyTTL
          /\ (pc[p] = "validate" /\ pc'[p] = "done" /\ keyErr[p] # ""
              /\ mode[p] = "required") => Rejected401(out'[p])
      ]_vars

(* ---------------------- failed fetches are not shared ----------------- *)

\* the goroutines whose GET is out
Fetching == {q \in Procs : pc[q] = "fetch"}

\* one fetch at a time, made by the holder of the write lock; while it is
\* out every other caller of the slow path waits in front of Lock(); a call
\* returns an error only when its own GET failed; and when all the callers
\* that met on the empty cache have returned with an error, each of them
\* made a GET of its own
FetchesInTurn ==
    /\ Cardinality(Fetching) <= 1
    /\ \A q \in Fetching :
          /\ rwWriter = q
          /\ \A p \in Procs \ {q} :
                /\ pc[p] # "lockwait"
                /\ pc[p] = "lock" => ~ENABLED Lock(p)
    /\ \A p \in Procs : (pc[p] = "validate" /\ keyErr[p] # "") => fetched[p] = "fail"
    /\ \A p \in Procs :
          (HerdReturned(p) /\ \A q \in Herd(p) : keyErr[q] # "") =>
              Cardinality({q \in Herd(p) : fetched[q] = "fail"}) = Cardinality(Herd(p))

\* C26: a failed fetch is not shared. A caller that gets the write lock
\* while the cache is still empty or expired makes its own GET, whatever
\* became of the GETs before it; the GETs are made one at a time, each
\* caller waiting for the lock behind those before it, so that N callers
\* on an unreachable issuer cause N fetch attempts.
C26_FailedFetchNotShared ==
    /\ []FetchesInTurn
    /\ [][\A p \in Procs :
             (/\ pc[p] = "lockwait" /\ pc'[p] # pc[p]
              /\ ~(cachedPublicKey # Nil /\ now < publicKeyExpiry)) =>
                 (pc'[p] = "fetch" /\ rwWriter' = p)]_vars

\* two callers met on the empty cache; the GET of each failed
C26_Witness ==
    \E p, q \in Procs :
        /\ p # q /\ HerdReturned(p) /\ q \in peers[p]
        /\ fetched[p] = "fail" /\ fetched[q] = "fail"
        /\ keyErr[p] # "" /\ keyErr[q] # ""
        /\ cachedPublicKey = Nil

(* ------------------- a key change behind a warm cache ----------------- *)

\* the gateway holds an unexpired key that is no longer the issuer's
Outdated == cachedPublicKey # Nil /\ now < publicKeyExpiry /\ cachedPublicKey # issuerKey

\* C27: a validation, failed or not, leaves the cache as it was and sends no
\* GET. While the gateway holds an unexpired key that is not the issuer's
\* any more, every call of getPublicKey returns that key without a GET, and
\* a token signed with another key, the issuer's new one included, is
\* answered 401; the call that finds the key expired fetches, and a request
\* validated under the key its token was signed with, inside the token's
\* window, is passed on.
C27_NoRefetchOnFailure ==
    [][\A p \in Procs :
          /\ (pc[p] = "validate" /\ pc'[p] = "done") =>
                /\ UNCHANGED <<cachedPublicKey, publicKeyExpiry>>
                /\ \A q \in Procs : pc'[q] = "fetch" => pc[q] = "fetch"
                /\ (mode[p] = "required" /\ (keyErr[p] # "" \/ hdr[p].cred.sig # key[p]))
                      => Rejected401(out'[p])
                /\ (keyErr[p] = "" /\ GoodAccessToken(hdr[p], key[p], now)) =>
                      (out'[p].status = 0 /\ ~out'[p].aborted /\ HandlerRuns(out'[p]) = 1
                       /\ "user_id" \in out'[p].keys)
          /\ (Outdated /\ pc[p] \in {"rcheck", "lockwait"} /\ pc'[p] # pc[p]) =>
                /\ pc'[p] = (IF pc[p] = "rcheck" THEN "fastread" ELSE "validate")
                /\ fetched'[p] = ""
                /\ pc'[p] = "validate" => (key'[p] = cachedPublicKey /\ key'[p] # issuerKey)
                /\ UNCHANGED <<cachedPublicKey, publicKeyExpiry>>
          /\ (pc[p] = "fastread" /\ pc'[p] # pc[p]) =>
                /\ pc'[p] = "validate" /\ fetched'[p] = ""
                /\ key'[p] = cachedPublicKey /\ key'[p] # Nil
                /\ (cachedPublicKey # issuerKey => key'[p] # issuerKey)
                /\ UNCHANGED <<cachedPublicKey, publicKeyExpiry>>
          /\ (Stale /\ pc[p] = "lockwait" /\ pc'[p] # pc[p]) => pc'[p] = "fetch"
      ]_vars

\* the issuer restarted behind a cached key; once that key had expired a
\* request with a token of the new key pair fetched the new key and passed
C27_Witness ==
    /\ pc[1] = "done" /\ mode[1] = "required"
    /\ issuerKey = 2 /\ cachedPublicKey = 2
    /\ firstExpiry = KeyTTL /\ publicKeyExpiry = KeyTTL + KeyTTL
    /\ GoodAccessToken(hdr[1], issuerKey, now)
    /\ out[1].status = 0 /\ HandlerRuns(out[1]) = 1 /\ "user_id" \in out[1].keys

(* ------------------------- the URL of the proxy ----------------------- *)

\* the path and the query of the inbound request
Inbound(call) ==
    BaseURL \o "/" \o call.route \o PathString(call.path)
        \o (IF call.query = "" THEN "" ELSE "?" \o call.query)

\* C28: the URL ProxyRequest sends to the backend is exactly
\* http://<host>:<port><path>, <path> being the wildcard parameter of the
\* route, or / when it is empty; host and port come from the service name
\* (and the gateway's environment), so that neither the route prefix nor the
\* query string of the inbound request is in it.
C28_TargetURL ==
    (proxy.stage \in {"do", "done"} /\ proxy.first # NoRequest) =>
        /\ URLString(proxy.first.url) =
              "http://" \o HostPort(ProxyHandlers[proxy.route], proxy.env)
                        \o (IF proxy.path = <<>> THEN "/" ELSE PathString(proxy.path))
        /\ proxy.first.method = proxy.method

\* GET /api/v1/auth/login?page=2 went out as http://auth:8080/login
C28_Witness ==
    /\ proxy.stage = "do"
    /\ Inbound(proxy) = "/api/v1/auth/login?page=2"
    /\ proxy.env = NoEnv
    /\ URLString(proxy.first.url) = "http://auth:8080/login"

(* ---------------------- refresh and the users table ------------------- *)

\* the request is a refresh the service takes at time t under key k: an
\* access token that passes JwtAuthMiddleware in the header, a good refresh
\* token in the body
TakenRefresh(h, body, k, t) ==
    /\ HandlerRuns(JwtAuthMiddleware(h, k, t)) = 1
    /\ body.has
    /\ GoodRefresh(body.tok, k, t)

\* C29: refresh never consults the user store.  The pair of a refresh is made
\* from the claims of the presented refresh token alone (user id, email,
\* is_admin) and its refresh token expires a full RefreshTokenDuration after
\* the refresh, whatever the users table holds by then: a client that holds
\* an unexpired pair can always refresh it, so by refreshing before each
\* expiry it keeps valid access tokens with the is_admin of its login, also
\* after the user's row was deleted or its is_admin changed.
C29_RefreshIgnoresStore ==
    /\ [](  (/\ held # NoPair
             /\ held.access.sig = issuerKey
             /\ InWindow(held.access, now) /\ InWindow(held.refresh, now))
          => LET ans == RefreshRoute(Bearer(held.access), Body(TRUE, held.refresh),
                                     issuerKey, now, accessTokenDuration)
             IN /\ ans.status = StatusOK
                /\ PairFor(ans.pair, held.refresh, issuerKey, now, accessTokenDuration)
                /\ InWindow(ans.pair.access, now)
                /\ ans.pair.refresh.exp = now + RefreshTokenDuration)
    /\ [][(/\ resp'.route = "refresh"
           /\ nreq' = nreq + 1
           /\ TakenRefresh(resp'.hdr, resp'.body, issuerKey, now))
          => /\ resp'.status = StatusOK
             /\ PairFor(held', resp'.body.tok, issuerKey, now, accessTokenDuration)
             /\ UNCHANGED <<userStore, userSeq>>]_vars

\* an administrator logged in, the row was deleted, and after the refresh
\* token of the login had expired a refresh of a refreshed pair still gave a
\* valid access token that says is_admin
C29_Witness ==
    /\ resp.route = "refresh" /\ resp.status = StatusOK
    /\ now >= RefreshTokenDuration
    /\ GetByID(ParseUint(held.access.user_id)) = NoUser
    /\ held.access.is_admin
    /\ InWindow(held.access, now)
    /\ held.refresh.exp = now + RefreshTokenDuration
    /\ JwtAuthMiddleware(Bearer(held.access), issuerKey, now).id.is_admin

(* ------------------------- the profile update ------------------------- *)

\* the step is a PUT /users/profile the middleware let through for the user
\* with this id, whose token and whose row both say is_admin false
NonAdminUpdate(id) ==
    /\ resp'.route = "profile"
    /\ nreq' = nreq + 1
    /\ HandlerRuns(JwtAuthMiddleware(resp'.hdr, issuerKey, now)) = 1
    /\ ParseUint(JwtAuthMiddleware(resp'.hdr, issuerKey, now).id.user_id) = id
    /\ ~JwtAuthMiddleware(resp'.hdr, issuerKey, now).id.is_admin
    /\ GetByID(id) # NoUser
    /\ ~GetByID(id).IsAdmin

\* C30 as stated: a PUT /users/profile by an authenticated non-admin user
\* leaves that user's stored is_admin and stored password hash as they were,
\* whatever the body: only the caller's record is written, and the caller
\* cannot make themselves an administrator.
C30_ProfileKeepsAdminAndPassword ==
    [][\A id \in {u.ID : u \in userStore} :
          NonAdminUpdate(id) =>
             /\ {u \in userStore' : u.ID # id} = {u \in userStore : u.ID # id}
             /\ \A v \in userStore' :
                   v.ID = id => /\ v.IsAdmin = GetByID(id).IsAdmin
                                /\ v.Password = GetByID(id).Password]_vars

====
